---- MODULE Spec2Model ----
(***************************************************************************)
(* Verification model of Connected_Devices_Server.                         *)
(*                                                                         *)
(*   Spec        the device registry (internal/devices) writing through    *)
(*               to the JSON file store (internal/storage): concurrent     *)
(*               message handlers, failing writes, and abrupt process      *)
(*               stops followed by a new InitStorage.                      *)
(*   SpecCanvas  the shared canvas (internal/etchsketch).                  *)
(*                                                                         *)
(* InitStorage is taken to have succeeded, so manager.store is never nil   *)
(* and the data file, when present, is readable.                           *)
(***************************************************************************)
EXTENDS Integers, Sequences, FiniteSets, TLC

(***************************************************************************)
(* Bounds and input sets                                                   *)
(***************************************************************************)
\* the clock runs from 0 to MaxTime ticks
MaxTime == 1
\* number of abrupt stops followed by a restart that a behaviour may contain
MaxRestarts == 1
\* clock ticks per second: time.RFC3339 keeps whole seconds only
TicksPerSecond == 2

\* number of ApplyUpdates calls a behaviour may contain
MaxCalls == 3
\* longest batch of pixel updates handed to ApplyUpdates
MaxBatch == 2

DeviceIDs == {"D1", "D2"}
DeviceNames == {"porch"}
Zipcodes == {"78757", "60601"}
Handlers == {"h1", "h2"}

NoHolder == "none"
EmptyMap == <<>>
\* a file is absent, partially written, or holds a complete JSON document
NoFile == [kind |-> "absent", content |-> EmptyMap]
Partial == [kind |-> "partial", content |-> EmptyMap]
Complete(d) == [kind |-> "json", content |-> d]
NoArgs == [op |-> "none", id |-> "", name |-> "", zip |-> ""]

(***************************************************************************)
(* State                                                                   *)
(***************************************************************************)
VARIABLES
    devices,     \* manager.devices: device id -> Device
    mu,          \* manager.mu: the handler holding it, or NoHolder
    data,        \* store.data: key -> DeviceData
    smu,         \* store.mu: the handler holding it, or NoHolder
    file,        \* content of the data file
    tmp,         \* content of the data file + ".tmp"
    now,         \* time.Now(), in ticks
    hpc,         \* position of each message handler
    hargs,       \* the event each handler is processing
    herr,        \* error returned by store.Set to the handler
    boots,       \* number of restarts so far
    lastSaveOk   \* history: FALSE when the latest write-through failed

rvars == <<devices, mu, data, smu, file, tmp, now, hpc, hargs, herr, boots,
           lastSaveOk>>

VARIABLES
    red,         \* Canvas.red: row -> bitmask of the row's columns
    green,       \* Canvas.green
    blue,        \* Canvas.blue
    sequence,    \* Canvas.sequence
    ccalls,      \* number of ApplyUpdates calls so far
    clast        \* the canvas call that has returned to its caller, with
                 \* its batch and its result, until the caller goes on

cvars == <<red, green, blue, sequence, ccalls, clast>>

VARIABLES
    kpc,         \* position of each handler in the code of the message in hand
    kloc,        \* the locals of each handler
    kpub,        \* the latest publish each handler has handed to the client
    kops,        \* number of messages taken up so far
    cmu,         \* Canvas.mu: its writer and its readers
    committed,   \* history: the canvas as the latest completed mutation left it
    lastMut,     \* history: the latest completed mutation and its arguments
    applied      \* history: the ApplyUpdates calls completed since the latest
                 \* SetState: sequence then, their number, results and bits

kvars == <<kpc, kloc, kpub, kops, cmu, committed, lastMut, applied>>

VARIABLES
    wstore,      \* the weather store: zipcode -> WeatherData
    wmu,         \* weather.mu: its writer and its readers
    configMutex, \* configMutex: its writer and its readers
    minutes      \* time.Now(), in minutes

wvars == <<wstore, wmu, configMutex, minutes>>

VARIABLES
    wire,        \* a call of a function of the wire codec: argument, result
    pub,         \* a call of a publish function: the token and the wait
    net,         \* the canvas topic: the messages that the broker holds for
                 \* the subscription of the server, and what came of them
    task,        \* task_weather: the tick in hand and what it has done
    lk           \* the mutexes of the registry, of the weather package and of
                 \* their stores, and the position of each thread in the
                 \* function that it is running

mvars == <<wire, pub, net, task, lk>>

vars == <<rvars, cvars, kvars, wvars, mvars>>

\* the variables of the other components
nonRegistry == <<cvars, kvars, wvars, mvars>>
nonCanvas == <<rvars, kvars, wvars, mvars>>

Known == DOMAIN devices

(***************************************************************************)
(* time.Format(time.RFC3339) and time.Parse(time.RFC3339, ...)             *)
(***************************************************************************)
FormatRFC3339(t) == t \div TicksPerSecond
ParseRFC3339(s) == s * TicksPerSecond

(***************************************************************************)
(* internal/devices: the in-memory transitions                             *)
(***************************************************************************)
\* a bug: the zipcode of the bootup message overrides the stored one
RegisterDevice_payloadZip(devs, deviceID, deviceName, zipcode, t) ==
    (deviceID :> [ID |-> deviceID, Name |-> deviceName, Zipcode |-> zipcode,
                  LastSeen |-> t, Active |-> TRUE]) @@ devs

RegisterDevice(devs, deviceID, deviceName, zipcode, t) ==
    LET exists == deviceID \in DOMAIN devs
        storedZipcode == IF exists THEN devs[deviceID].Zipcode ELSE zipcode
        name == deviceName
    IN  IF exists
        THEN [devs EXCEPT ![deviceID] =
                 [@ EXCEPT !.Active = TRUE, !.LastSeen = t,
                           !.Zipcode = storedZipcode, !.Name = name]]
        ELSE (deviceID :> [ID |-> deviceID, Name |-> name,
                           Zipcode |-> storedZipcode, LastSeen |-> t,
                           Active |-> TRUE]) @@ devs

SetInactive(devs, deviceID) ==
    IF deviceID \in DOMAIN devs
    THEN [devs EXCEPT ![deviceID] = [@ EXCEPT !.Active = FALSE]]
    ELSE devs

\* a bug: a heartbeat refreshes the last-seen time of every known device
Heartbeat_touchesAll(devs, deviceID, t) ==
    IF deviceID \in DOMAIN devs
    THEN [id \in DOMAIN devs |->
             [devs[id] EXCEPT !.LastSeen = t,
                              !.Active = IF id = deviceID THEN TRUE ELSE @]]
    ELSE devs

\* a bug: the heartbeat refreshes LastSeen but does not reactivate
Heartbeat_noReactivate(devs, deviceID, t) ==
    IF deviceID \in DOMAIN devs
    THEN [devs EXCEPT ![deviceID] = [@ EXCEPT !.LastSeen = t]]
    ELSE devs

\* a bug: the heartbeat of an unknown id registers it
Heartbeat_creates(devs, deviceID, t) ==
    IF deviceID \in DOMAIN devs
    THEN [devs EXCEPT ![deviceID] = [@ EXCEPT !.LastSeen = t, !.Active = TRUE]]
    ELSE (deviceID :> [ID |-> deviceID, Name |-> deviceID, Zipcode |-> "",
                       LastSeen |-> t, Active |-> TRUE]) @@ devs

Heartbeat(devs, deviceID, t) ==
    IF deviceID \in DOMAIN devs
    THEN [devs EXCEPT ![deviceID] =
             [@ EXCEPT !.LastSeen = t,
                       !.Active = IF ~@ THEN TRUE ELSE @]]
    ELSE devs

\* a bug: the record is always stored as active
ToDeviceData_alwaysActive(device) ==
    [DeviceID |-> device.ID, Name |-> device.Name, Zipcode |-> device.Zipcode,
     Active |-> TRUE, LastSeen |-> FormatRFC3339(device.LastSeen)]

\* saveDeviceToStorage: the DeviceData record built from the device
ToDeviceData(device) ==
    [DeviceID |-> device.ID, Name |-> device.Name, Zipcode |-> device.Zipcode,
     Active |-> device.Active, LastSeen |-> FormatRFC3339(device.LastSeen)]

\* InitStorage: the Device built from a stored record
FromDeviceData(deviceData) ==
    [ID |-> deviceData.DeviceID, Name |-> deviceData.Name,
     Zipcode |-> deviceData.Zipcode,
     LastSeen |-> ParseRFC3339(deviceData.LastSeen),
     Active |-> deviceData.Active]

(***************************************************************************)
(* internal/storage                                                        *)
(***************************************************************************)
\* a bug: Set replaces the map by the one entry
StoreSet_onlyKey(d, key, value) == (key :> value)

\* Manager.Set: m.data[key] = value
StoreSet(d, key, value) == (key :> value) @@ d

\* Manager.load: the map read from the data file
StoreLoad(f) == IF f.kind = "json" THEN f.content ELSE EmptyMap

\* InitStorage: the registry built from store.GetAll()
LoadDevices(d) == [key \in DOMAIN d |-> FromDeviceData(d[key])]

(***************************************************************************)
(* Init: a fresh process with no data file                                 *)
(***************************************************************************)
RInit ==
    /\ devices = EmptyMap
    /\ mu = NoHolder
    /\ data = EmptyMap
    /\ smu = NoHolder
    /\ file = NoFile
    /\ tmp = NoFile
    /\ now = 0
    /\ hpc = [h \in Handlers |-> "idle"]
    /\ hargs = [h \in Handlers |-> NoArgs]
    /\ herr = [h \in Handlers |-> FALSE]
    /\ boots = 0
    /\ lastSaveOk = TRUE


(***************************************************************************)
(* internal/etchsketch: the canvas                                         *)
(***************************************************************************)
Rows == 0 .. 15
\* the values of a uint16
Uint16 == 65536

\* the PixelUpdate values (Row, Col, Color are uint8) the batches are made of
Pixels ==
    { [Row |-> 1, Col |-> 0, Color |-> 0],
      [Row |-> 1, Col |-> 0, Color |-> 1],
      [Row |-> 15, Col |-> 15, Color |-> 2],
      [Row |-> 16, Col |-> 0, Color |-> 0],
      [Row |-> 1, Col |-> 255, Color |-> 2],
      [Row |-> 7, Col |-> 3, Color |-> 3] }

Batches == UNION {[1 .. n -> Pixels] : n \in 0 .. MaxBatch}

\* the frames and sequence numbers a device submits to SetState
BlankRows == [r \in Rows |-> 0]
BlankFrame == [red |-> BlankRows, green |-> BlankRows, blue |-> BlankRows]
PatternFrame ==
    [red |-> [BlankRows EXCEPT ![1] = 2, ![7] = 65535],
     green |-> [BlankRows EXCEPT ![15] = 32768],
     blue |-> [BlankRows EXCEPT ![0] = 1]]
Frames == {BlankFrame, PatternFrame}
SeqInputs == {0, 65535}

\* bit i of x
Bit(x, i) == (x \div (2 ^ i)) % 2

\* uint16(1) << n
Shl16(n) == IF n > 15 THEN 0 ELSE 2 ^ n

\* x | y
RECURSIVE BitOr(_, _)
BitOr(x, y) ==
    IF x = 0 THEN y
    ELSE IF y = 0 THEN x
    ELSE (IF x % 2 = 1 \/ y % 2 = 1 THEN 1 ELSE 0)
         + 2 * BitOr(x \div 2, y \div 2)

\* c.sequence++ on a uint16
Inc16(s) == (s + 1) % Uint16

\* a bug: the row is assigned the mask, which clears its other bits
ApplyOne_assign(c, update) ==
    IF update.Row > 15 \/ update.Col > 15
    THEN c
    ELSE LET bitMask == Shl16(update.Col)
         IN  CASE update.Color = 0 -> [c EXCEPT !.red[update.Row] = bitMask]
               [] update.Color = 1 -> [c EXCEPT !.green[update.Row] = bitMask]
               [] update.Color = 2 -> [c EXCEPT !.blue[update.Row] = bitMask]
               [] OTHER -> c

\* ApplyUpdates: the body of the loop, for one update
ApplyOne(c, update) ==
    IF update.Row > 15 \/ update.Col > 15
    THEN c
    ELSE LET bitMask == Shl16(update.Col)
         IN  CASE update.Color = 0 ->
                      [c EXCEPT !.red[update.Row] = BitOr(@, bitMask)]
               [] update.Color = 1 ->
                      [c EXCEPT !.green[update.Row] = BitOr(@, bitMask)]
               [] update.Color = 2 ->
                      [c EXCEPT !.blue[update.Row] = BitOr(@, bitMask)]
               [] OTHER -> c

\* a bug: the loop ends at the first update with invalid coordinates
RECURSIVE ApplyLoop_break(_, _)
ApplyLoop_break(c, updates) ==
    IF updates = <<>> THEN c
    ELSE IF Head(updates).Row > 15 \/ Head(updates).Col > 15 THEN c
    ELSE ApplyLoop_break(ApplyOne(c, Head(updates)), Tail(updates))

\* ApplyUpdates: the loop over the batch
RECURSIVE ApplyLoop(_, _)
ApplyLoop(c, updates) ==
    IF updates = <<>> THEN c
    ELSE ApplyLoop(ApplyOne(c, Head(updates)), Tail(updates))

NoCall == [op |-> "none", updates |-> <<>>, ret |-> 0]

\* NewCanvas
CInit ==
    /\ red = BlankRows
    /\ green = BlankRows
    /\ blue = BlankRows
    /\ sequence = 0
    /\ ccalls = 0
    /\ clast = NoCall

\* a bug: the sequence number is incremented once per update of the batch
ApplyUpdates_perPixel(updates) ==
    /\ clast = NoCall
    /\ ccalls < MaxCalls
    /\ \E c \in {ApplyLoop([red |-> red, green |-> green, blue |-> blue],
                          updates)} :
          /\ red' = c.red
          /\ green' = c.green
          /\ blue' = c.blue
    /\ sequence' = (sequence + Len(updates)) % Uint16
    /\ clast' = [op |-> "ApplyUpdates", updates |-> updates,
                 ret |-> (sequence + Len(updates)) % Uint16]
    /\ ccalls' = ccalls + 1
    /\ UNCHANGED nonCanvas

\* Canvas.ApplyUpdates, under c.mu
ApplyUpdates(updates) ==
    /\ clast = NoCall
    /\ ccalls < MaxCalls
    /\ \E c \in {ApplyLoop([red |-> red, green |-> green, blue |-> blue],
                          updates)} :
          /\ red' = c.red
          /\ green' = c.green
          /\ blue' = c.blue
    /\ sequence' = Inc16(sequence)
    /\ clast' = [op |-> "ApplyUpdates", updates |-> updates,
                 ret |-> Inc16(sequence)]
    /\ ccalls' = ccalls + 1
    /\ UNCHANGED nonCanvas

\* Canvas.SetState, under c.mu
SetState(seq, r, g, b) ==
    /\ clast = NoCall
    /\ sequence' = seq
    /\ red' = r
    /\ green' = g
    /\ blue' = b
    /\ clast' = [op |-> "SetState", updates |-> <<>>, ret |-> 0]
    /\ UNCHANGED ccalls
    /\ UNCHANGED nonCanvas

\* the caller of the canvas takes the result and goes on
CallerContinues ==
    /\ clast # NoCall
    /\ clast' = NoCall
    /\ UNCHANGED <<red, green, blue, sequence, ccalls>>
    /\ UNCHANGED nonCanvas

NextCanvas ==
    \/ \E updates \in Batches : ApplyUpdates(updates)
    \/ \E seq \in SeqInputs, f \in Frames :
          SetState(seq, f.red, f.green, f.blue)
    \/ CallerContinues

(***************************************************************************)
(* Handlers of canvas messages: state                                      *)
(***************************************************************************)
\* number of canvas messages a behaviour may contain
MaxOps == 3

\* a sync.RWMutex: the handler holding it for writing, those holding it for
\* reading
Unlocked == [w |-> NoHolder, r |-> {}]

NoLocals == [op |-> "none"]
NoPublish == [topic |-> <<>>, qos |-> 0, retained |-> FALSE, payload |-> <<>>]

\* the channels and the sequence of the canvas, as one value
CanvasNow ==
    [red |-> red, green |-> green, blue |-> blue, sequence |-> sequence]

\* NewManager: a new canvas, nothing taken up
KInit ==
    /\ kpc = [h \in Handlers |-> "idle"]
    /\ kloc = [h \in Handlers |-> NoLocals]
    /\ kpub = [h \in Handlers |-> NoPublish]
    /\ kops = 0
    /\ cmu = Unlocked
    /\ committed = [red |-> BlankRows, green |-> BlankRows,
                    blue |-> BlankRows, sequence |-> 0]
    /\ lastMut = [op |-> "NewCanvas"]
    /\ applied = [base |-> 0, n |-> 0, rets |-> {}, bits |-> {}]

\* InitWeatherStorage with no weather file; the runtime configuration loaded
WInit ==
    /\ wstore = EmptyMap
    /\ wmu = Unlocked
    /\ configMutex = Unlocked
    /\ minutes = 0

\* no call of the codec or of a publish function is under way
NoCodecCall == [fn |-> "none", arg |-> <<>>, done |-> FALSE, res |-> <<>>]
NoPublishCall ==
    [pc |-> "idle", fn |-> "none", token |-> "none", sent |-> 0,
     waited |-> 0, outcome |-> "none"]
\* nothing is on the canvas topic; no device frame has been delivered
NoFrame ==
    [sequence |-> 0, red |-> BlankRows, green |-> BlankRows,
     blue |-> BlankRows]
NetInit ==
    [inbox |-> <<>>, sent |-> 0, latest |-> NoFrame, frames |-> 0,
     last |-> "none", pubs |-> 0]

\* task_weather waits for its first tick
\* the goroutines that call the registry and the weather package: the
\* handlers of the messages and task_weather
Threads == Handlers \union {"task_weather"}
\* manager.mu and manager.store.mu of internal/devices, mu and store.mu of
\* the weather package
Mutexes == {"manager.mu", "manager.store.mu", "weather.mu", "weather.store.mu"}
\* a sync.RWMutex that nobody holds or waits for
FreeMutex == [w |-> NoHolder, r |-> {}, pending |-> {}]
\* no thread is inside a function; every mutex is free
LockInit ==
    [fn |-> [t \in Threads |-> "none"], pc |-> [t \in Threads |-> 1],
     m |-> [x \in Mutexes |-> FreeMutex]]
\* task_weather waits for its tickers; no tick has been handled
TaskInit ==
    [pc |-> "wait", kind |-> "", todo |-> {}, zip |-> <<>>, active |-> {},
     fetched |-> <<>>, published |-> <<>>, ticks |-> 0]

MInit ==
    /\ wire = NoCodecCall
    /\ pub = NoPublishCall
    /\ net = NetInit
    /\ task = TaskInit
    /\ lk = LockInit

Init == RInit /\ CInit /\ KInit /\ WInit /\ MInit

(***************************************************************************)
(* Message handlers                                                        *)
(***************************************************************************)
\* handler h takes manager.mu and runs the in-memory part of its operation
Begin(h, ev, devs2, pc2) ==
    /\ mu = NoHolder
    /\ mu' = h
    /\ devices' = devs2
    /\ hpc' = [hpc EXCEPT ![h] = pc2]
    /\ hargs' = [hargs EXCEPT ![h] = ev]
    /\ herr' = [herr EXCEPT ![h] = FALSE]
    /\ UNCHANGED <<data, smu, file, tmp, now, boots, lastSaveOk>>
    /\ UNCHANGED nonRegistry

\* RegisterDevice up to the call of saveDeviceToStorage
BootupBegin(h, id, name, zip) ==
    /\ hpc[h] = "idle"
    /\ Begin(h, [op |-> "bootup", id |-> id, name |-> name, zip |-> zip],
             RegisterDevice(devices, id, name, zip, now), "save")

\* Heartbeat up to the call of saveDeviceToStorage, or to its end
HeartbeatBegin(h, id) ==
    /\ hpc[h] = "idle"
    /\ Begin(h, [op |-> "heartbeat", id |-> id, name |-> "", zip |-> ""],
             Heartbeat(devices, id, now),
             IF id \in Known THEN "save" ELSE "unlock")

\* SetInactive up to the call of saveDeviceToStorage, or to its end
SetInactiveBegin(h, id) ==
    /\ hpc[h] = "idle"
    /\ Begin(h, [op |-> "offline", id |-> id, name |-> "", zip |-> ""],
             SetInactive(devices, id),
             IF id \in Known THEN "save" ELSE "unlock")

\* saveDeviceToStorage up to m.data[key] = value in Manager.Set
SaveDeviceToStorage(h) ==
    /\ hpc[h] = "save"
    /\ smu = NoHolder
    /\ smu' = h
    /\ data' = StoreSet(data, hargs[h].id, ToDeviceData(devices[hargs[h].id]))
    /\ hpc' = [hpc EXCEPT ![h] = "write"]
    /\ UNCHANGED <<devices, mu, file, tmp, now, hargs, herr, boots, lastSaveOk>>
    /\ UNCHANGED nonRegistry

\* a bug: a failed save takes the entry out of the map again
SaveFails_rollback(h, tmp2) ==
    /\ tmp' = tmp2
    /\ hpc' = [hpc EXCEPT ![h] = "unlock"]
    /\ herr' = [herr EXCEPT ![h] = TRUE]
    /\ lastSaveOk' = FALSE
    /\ data' = [k \in DOMAIN data \ {hargs[h].id} |-> data[k]]
    /\ UNCHANGED file

\* Manager.save returns an error, which Set returns to saveDeviceToStorage
SaveFails(h, tmp2) ==
    /\ tmp' = tmp2
    /\ hpc' = [hpc EXCEPT ![h] = "unlock"]
    /\ herr' = [herr EXCEPT ![h] = TRUE]
    /\ lastSaveOk' = FALSE
    /\ UNCHANGED <<data, file>>

\* a bug: the data file itself is opened for writing
WriteFileOpen_inPlace(h) ==
    /\ hpc[h] = "write"
    /\ file' = Partial
    /\ hpc' = [hpc EXCEPT ![h] = "writing"]
    /\ UNCHANGED <<devices, mu, data, smu, tmp, now, hargs, herr, boots,
                   lastSaveOk>>
    /\ UNCHANGED nonRegistry

\* Manager.save: os.WriteFile creates or truncates the temporary file
WriteFileOpen(h) ==
    /\ hpc[h] = "write"
    /\ \/ /\ tmp' = Partial
          /\ hpc' = [hpc EXCEPT ![h] = "writing"]
          /\ UNCHANGED <<data, file, herr, lastSaveOk>>
       \/ SaveFails(h, tmp)
    /\ UNCHANGED <<devices, mu, smu, now, hargs, boots>>
    /\ UNCHANGED nonRegistry

\* Manager.save: os.WriteFile writes the marshalled map
WriteFileData(h) ==
    /\ hpc[h] = "writing"
    /\ \/ /\ tmp' = Complete(data)
          /\ hpc' = [hpc EXCEPT ![h] = "rename"]
          /\ UNCHANGED <<data, file, herr, lastSaveOk>>
       \/ SaveFails(h, Partial)
    /\ UNCHANGED <<devices, mu, smu, now, hargs, boots>>
    /\ UNCHANGED nonRegistry

\* Manager.save: os.Rename over the data file, os.Remove when it fails
Rename(h) ==
    /\ hpc[h] = "rename"
    /\ \/ /\ file' = tmp
          /\ tmp' = NoFile
          /\ hpc' = [hpc EXCEPT ![h] = "unlock"]
          /\ lastSaveOk' = TRUE
          /\ UNCHANGED <<data, herr>>
       \/ SaveFails(h, NoFile)
    /\ UNCHANGED <<devices, mu, smu, now, hargs, boots>>
    /\ UNCHANGED nonRegistry

\* the deferred unlocks: store.mu in Set, then manager.mu in the handler
Unlock(h) ==
    /\ hpc[h] = "unlock"
    /\ mu' = NoHolder
    /\ smu' = NoHolder
    /\ hpc' = [hpc EXCEPT ![h] = "idle"]
    /\ hargs' = [hargs EXCEPT ![h] = NoArgs]
    /\ herr' = [herr EXCEPT ![h] = FALSE]
    /\ UNCHANGED <<devices, data, file, tmp, now, boots, lastSaveOk>>
    /\ UNCHANGED nonRegistry

\* time passes
Tick ==
    /\ now < MaxTime
    /\ now' = now + 1
    /\ UNCHANGED <<devices, mu, data, smu, file, tmp, hpc, hargs, herr, boots,
                   lastSaveOk>>
    /\ UNCHANGED nonRegistry

\* the process stops abruptly, wherever it is, and a new one runs InitStorage
Restart ==
    /\ boots < MaxRestarts
    /\ boots' = boots + 1
    /\ mu' = NoHolder
    /\ smu' = NoHolder
    /\ hpc' = [h \in Handlers |-> "idle"]
    /\ hargs' = [h \in Handlers |-> NoArgs]
    /\ herr' = [h \in Handlers |-> FALSE]
    /\ data' = StoreLoad(file)
    /\ devices' = LoadDevices(StoreLoad(file))
    /\ lastSaveOk' = TRUE
    /\ UNCHANGED <<file, tmp, now>>
    /\ UNCHANGED nonRegistry

Next ==
    \/ \E h \in Handlers, id \in DeviceIDs, name \in DeviceNames,
          zip \in Zipcodes : BootupBegin(h, id, name, zip)
    \/ \E h \in Handlers, id \in DeviceIDs : HeartbeatBegin(h, id)
    \/ \E h \in Handlers, id \in DeviceIDs : SetInactiveBegin(h, id)
    \/ \E h \in Handlers : SaveDeviceToStorage(h)
    \/ \E h \in Handlers : WriteFileOpen(h)
    \/ \E h \in Handlers : WriteFileData(h)
    \/ \E h \in Handlers : Rename(h)
    \/ \E h \in Handlers : Unlock(h)
    \/ Tick
    \/ Restart

Spec == Init /\ [][Next]_vars

SpecCanvas == Init /\ [][NextCanvas]_vars

(***************************************************************************)
(* Device registry: properties                                             *)
(***************************************************************************)
\* handler h takes up an event in this step; the event is hargs'[h]
Starts(h) == hpc[h] = "idle" /\ hpc'[h] # "idle"

\* a stored record and a device agree in id, routing key and active flag
SameRecord(deviceData, device) ==
    /\ deviceData.DeviceID = device.ID
    /\ deviceData.Zipcode = device.Zipcode
    /\ deviceData.Active = device.Active

\* map d holds, for every device of the registry, a record that agrees with it
Mirrors(d) ==
    \A id \in Known : id \in DOMAIN d /\ SameRecord(d[id], devices[id])

\* the registry InitStorage would build from the data file as it is now
Reloaded == LoadDevices(StoreLoad(file))

\* C1: the routing key stored for an id is the one of the bootup that created
\* it.  A bootup for an unknown id stores the key of its payload; a bootup for
\* a known id marks it Active and keeps the stored key; and no step at all
\* (heartbeat, offline, save, restart) changes the key of a known device.
C1_StickyRoutingKey ==
    [][ /\ \A h \in Handlers :
              (Starts(h) /\ hargs'[h].op = "bootup") =>
                  LET id == hargs'[h].id
                  IN  /\ id \in DOMAIN devices'
                      /\ devices'[id].Active
                      /\ devices'[id].Zipcode =
                             IF id \in Known THEN devices[id].Zipcode
                             ELSE hargs'[h].zip
        /\ \A id \in Known :
              id \in DOMAIN devices' =>
                  devices'[id].Zipcode = devices[id].Zipcode ]_vars

\* C1 witness: a bootup carrying another routing key than the stored one has
\* been handled for a known device, which is Active with its first key
C1_Witness ==
    \E h \in Handlers :
        /\ hpc[h] = "unlock"
        /\ hargs[h].op = "bootup"
        /\ hargs[h].id \in DOMAIN file.content
        /\ devices[hargs[h].id].Active
        /\ devices[hargs[h].id].Zipcode # hargs[h].zip
        /\ file.content[hargs[h].id].Zipcode # hargs[h].zip

\* C2: a device is Active exactly when the latest event for its id was a
\* bootup or a heartbeat and Inactive when it was an offline notification:
\* every event for a known id sets the flag by its kind (a heartbeat makes an
\* Inactive device Active), and between two events for the id the flag of a
\* running process does not change.
C2_ActiveFollowsLastEvent ==
    [][ \A id \in DeviceIDs :
           LET starters == {h \in Handlers : Starts(h) /\ hargs'[h].id = id}
           IN  /\ \A h \in starters :
                     id \in DOMAIN devices' =>
                         (devices'[id].Active <=>
                              hargs'[h].op \in {"bootup", "heartbeat"})
               /\ (starters = {} /\ boots' = boots /\ id \in Known) =>
                      /\ id \in DOMAIN devices'
                      /\ devices'[id].Active = devices[id].Active ]_vars

\* C2 witness: a heartbeat has made Active a device that the store still
\* holds as Inactive
C2_Witness ==
    \E h \in Handlers :
        /\ hpc[h] = "save"
        /\ hargs[h].op = "heartbeat"
        /\ hargs[h].id \in DOMAIN data
        /\ ~data[hargs[h].id].Active
        /\ devices[hargs[h].id].Active

\* C3: a heartbeat or an offline notification never adds an id to the
\* registry, and for an id that is not registered the handler, from taking
\* the lock to releasing it, changes neither the registry nor the store map,
\* the data file or the temporary file.
C3_UnknownIdNoop ==
    [][ \A h \in Handlers :
           /\ (Starts(h) /\ hargs'[h].op \in {"heartbeat", "offline"}) =>
                  /\ DOMAIN devices' = Known
                  /\ hargs'[h].id \notin Known =>
                         /\ hpc'[h] = "unlock"
                         /\ UNCHANGED <<devices, data, file, tmp>>
           /\ ( /\ hpc[h] # "idle"
                /\ boots' = boots
                /\ hargs[h].op \in {"heartbeat", "offline"}
                /\ hargs[h].id \notin Known ) =>
                  /\ hpc'[h] \in {"unlock", "idle"}
                  /\ UNCHANGED <<devices, data, file, tmp>> ]_vars

\* C3 witness: a heartbeat for an unknown id is being handled while another
\* device is registered and stored
C3_Witness ==
    \E h \in Handlers :
        /\ hpc[h] = "unlock"
        /\ hargs[h].op = "heartbeat"
        /\ hargs[h].id \notin Known
        /\ Known # {}
        /\ file.kind = "json"

C5_StoreMirrorsRegistry ==
    mu = NoHolder =>
        /\ Mirrors(data)
        /\ lastSaveOk => Mirrors(StoreLoad(file))

\* C5 witness: two devices, one Active and one Inactive, stored by handlers
\* that ran one after the other, and nothing in progress
C5_Witness ==
    /\ mu = NoHolder
    /\ lastSaveOk
    /\ boots = 0
    /\ Known = DeviceIDs
    /\ \E a, b \in Known : devices[a].Active /\ ~devices[b].Active
    /\ \E a, b \in Known : devices[a].Zipcode # devices[b].Zipcode

\* C6: a handler whose write-through failed ends like any other, with the
\* transition made in memory and in the store map; and every save that
\* succeeds leaves in the data file the current record of every registered
\* device, whatever failed before.
C6_FailedWriteReconciled ==
    [][ \A h \in Handlers :
           /\ (hpc'[h] = "unlock" /\ herr'[h]) =>
                  LET id == hargs'[h].id
                  IN  /\ id \in DOMAIN devices'
                      /\ devices'[id].Active = (hargs'[h].op # "offline")
                      /\ id \in DOMAIN data'
                      /\ SameRecord(data'[id], devices'[id])
           /\ (hpc[h] = "rename" /\ hpc'[h] = "unlock" /\ ~herr'[h]) =>
                  /\ file'.kind = "json"
                  /\ \A id \in DOMAIN devices' :
                        /\ id \in DOMAIN file'.content
                        /\ SameRecord(file'.content[id], devices'[id]) ]_vars

\* C6 witness: the write for one device failed, the data file lacks that
\* device's current record, and the save of another device is about to
\* rename its temporary file
C6_Witness ==
    \E h \in Handlers :
        /\ hpc[h] = "rename"
        /\ ~lastSaveOk
        /\ \E id \in Known \ {hargs[h].id} :
              \/ id \notin DOMAIN StoreLoad(file)
              \/ ~SameRecord(StoreLoad(file)[id], devices[id])

\* C7: the data file is never partially written: it changes only by the
\* rename, from the complete snapshot of the last completed save to the
\* complete snapshot of the store map being saved, so a process stopped at
\* any step leaves one of the two.
C7_DataFileAlwaysComplete ==
    [][ /\ file'.kind # "partial"
        /\ file' # file =>
              /\ file' = Complete(data)
              /\ tmp = Complete(data)
              /\ \E h \in Handlers : hpc[h] = "rename" /\ smu = h ]_vars

\* C7 witness: a process was stopped with a half-written temporary file left
\* behind; the new process has loaded the complete snapshot of the last
\* completed save
C7_Witness ==
    /\ boots > 0
    /\ tmp = Partial
    /\ file.kind = "json"
    /\ mu = NoHolder
    /\ lastSaveOk
    /\ Known # {}

(***************************************************************************)
(* Canvas: properties                                                      *)
(***************************************************************************)
\* this step is a call of ApplyUpdates; its batch is clast'.updates
IsApply == ccalls' = ccalls + 1 /\ clast'.op = "ApplyUpdates"

OutOfRange(update) == update.Row > 15 \/ update.Col > 15

\* the columns that the in-range updates of batch u name in row `row` of
\* channel ch
TargetCols(u, ch, row) ==
    {u[i].Col : i \in {j \in 1 .. Len(u) : /\ ~OutOfRange(u[j])
                                           /\ u[j].Color = ch
                                           /\ u[j].Row = row}}

\* the weights of the bits of cols that are not set in row value `before`
RECURSIVE NewWeight(_, _)
NewWeight(before, cols) ==
    IF cols = {} THEN 0
    ELSE LET col == CHOOSE x \in cols : TRUE
         IN  (IF Bit(before, col) = 1 THEN 0 ELSE 2 ^ col)
             + NewWeight(before, cols \ {col})

\* row value `after` has exactly the bits of `before` and those of cols:
\* it is `before` plus the weight of each bit of cols that was not set
AddsExactly(before, after, cols) == after = before + NewWeight(before, cols)

\* the step leaves every row that no in-range update of batch u names as it
\* was, and adds to the others exactly the bits that u names
AddsExactlyBatch(u) ==
    \A row \in Rows :
        IF \E i \in 1 .. Len(u) : ~OutOfRange(u[i]) /\ u[i].Row = row
        THEN /\ AddsExactly(red[row], red'[row], TargetCols(u, 0, row))
             /\ AddsExactly(green[row], green'[row], TargetCols(u, 1, row))
             /\ AddsExactly(blue[row], blue'[row], TargetCols(u, 2, row))
        ELSE /\ red'[row] = red[row]
             /\ green'[row] = green[row]
             /\ blue'[row] = blue[row]

\* C8: every call of ApplyUpdates adds exactly 1 to the sequence modulo 2^16
\* (65535 is followed by 0) and returns the new value, whatever the batch.
C8_SequencePlusOne ==
    [][ IsApply =>
           /\ sequence' = IF sequence = 65535 THEN 0 ELSE sequence + 1
           /\ clast'.ret = sequence' ]_vars

\* C8 witness: ApplyUpdates with an empty batch took the sequence from 65535
\* to 0 and returned 0
C8_Witness ==
    /\ clast.op = "ApplyUpdates"
    /\ clast.updates = <<>>
    /\ clast.ret = 0
    /\ sequence = 0
    /\ ccalls > 0

\* C9: when a batch holds an update with row or column above 15, the
\* sequence is still incremented and every row of every channel has exactly
\* the bits it had plus those named by the in-range updates of the batch: the
\* out-of-range update sets nothing and stops nothing.
C9_OutOfRangeSkipped ==
    [][ (IsApply /\ \E i \in 1 .. Len(clast'.updates) :
                        OutOfRange(clast'.updates[i])) =>
           LET u == SelectSeq(clast'.updates, LAMBDA p : ~OutOfRange(p))
           IN  /\ sequence' = (sequence + 1) % 65536
               /\ \A i \in 1 .. Len(u) :
                     /\ u[i].Color = 0 => Bit(red'[u[i].Row], u[i].Col) = 1
                     /\ u[i].Color = 1 => Bit(green'[u[i].Row], u[i].Col) = 1
                     /\ u[i].Color = 2 => Bit(blue'[u[i].Row], u[i].Col) = 1
               /\ AddsExactlyBatch(u) ]_vars

\* C9 witness: the first call on the blank canvas had an out-of-range update
\* followed by an in-range one, whose bit is the only one set
C9_Witness ==
    /\ clast.op = "ApplyUpdates"
    /\ ccalls = 1
    /\ sequence = 1
    /\ Len(clast.updates) = 2
    /\ OutOfRange(clast.updates[1])
    /\ clast.updates[2] = [Row |-> 15, Col |-> 15, Color |-> 2]
    /\ blue = [BlankRows EXCEPT ![15] = 32768]
    /\ red = BlankRows
    /\ green = BlankRows

\* C10: ApplyUpdates only adds bits: afterwards a bit of a channel is set
\* exactly when it was set before or an in-range update of the batch names
\* that channel, row and column; the rows no update names are unchanged.
C10_PurelyAdditive ==
    [][ IsApply => AddsExactlyBatch(clast'.updates) ]_vars

\* C10 witness: a batch has added bit 0 to red row 1 and to green row 1 of
\* the pattern frame, whose own bits are all still set
C10_Witness ==
    /\ clast.op = "ApplyUpdates"
    /\ red = [BlankRows EXCEPT ![1] = 3, ![7] = 65535]
    /\ green = [BlankRows EXCEPT ![1] = 1, ![15] = 32768]
    /\ blue = [BlankRows EXCEPT ![0] = 1]

(***************************************************************************)
(* Wire format of the full canvas frame                                    *)
(***************************************************************************)
\* "etch_sketch"
TopicEtchSketch == <<101, 116, 99, 104, 95, 115, 107, 101, 116, 99, 104>>

\* binary.BigEndian.PutUint16 and binary.LittleEndian.PutUint16
PutUint16BE(x) == <<x \div 256, x % 256>>
PutUint16LE(x) == <<x % 256, x \div 256>>

\* binary.BigEndian.Uint16 and binary.LittleEndian.Uint16 of bytes b[at], b[at+1]
Uint16BE(b, at) == b[at] * 256 + b[at + 1]
Uint16LE(b, at) == b[at + 1] * 256 + b[at]

\* a bug: the rows of a channel are written big-endian
EncodeChannel_bigEndian(rows) ==
    [k \in 1 .. 32 |-> PutUint16BE(rows[(k - 1) \div 2])[((k - 1) % 2) + 1]]

\* EncodeFullFrame: the 32 bytes of one channel
EncodeChannel(rows) ==
    [k \in 1 .. 32 |-> PutUint16LE(rows[(k - 1) \div 2])[((k - 1) % 2) + 1]]

\* EncodeFullFrame: the message built from the values read
EncodeFrame(seq, r, g, b) ==
    <<33, 98>> \o PutUint16BE(seq) \o EncodeChannel(r) \o EncodeChannel(g)
        \o EncodeChannel(b)

\* DecodeFullFrame: 16 rows starting at byte `at` of the payload
DecodeChannel(payload, at) ==
    [i \in Rows |-> Uint16LE(payload, at + 2 * i)]

\* a nil error
NoError == "ok"

\* a bug: the first 96 bytes are enough
DecodeFullFrame_short(payload) ==
    IF Len(payload) < 96
    THEN [err |-> "invalid payload", sequence |-> 0,
          red |-> [i \in Rows |-> 0], green |-> [i \in Rows |-> 0],
          blue |-> [i \in Rows |-> 0]]
    ELSE [err |-> NoError,
          sequence |-> Uint16BE(payload, 1),
          red |-> DecodeChannel(payload, 3),
          green |-> DecodeChannel(payload, 35),
          blue |-> DecodeChannel(payload \o <<0, 0>>, 67)]

\* DecodeFullFrame: the sequence and the channels of a payload of at least
\* 98 bytes, or ErrInvalidPayload and zero values
DecodeFullFrame(payload) ==
    IF Len(payload) < 98
    THEN [err |-> "invalid payload", sequence |-> 0,
          red |-> [i \in Rows |-> 0], green |-> [i \in Rows |-> 0],
          blue |-> [i \in Rows |-> 0]]
    ELSE [err |-> NoError,
          sequence |-> Uint16BE(payload, 1),
          red |-> DecodeChannel(payload, 3),
          green |-> DecodeChannel(payload, 35),
          blue |-> DecodeChannel(payload, 67)]

(***************************************************************************)
(* Handlers of canvas messages, step by step under Canvas.mu               *)
(***************************************************************************)
\* the batches of the concurrent ApplyUpdates calls: empty, one update, two
\* updates of which the first is out of range, two updates of one row
CallBatches ==
    { <<>>,
      <<[Row |-> 1, Col |-> 0, Color |-> 0]>>,
      <<[Row |-> 16, Col |-> 0, Color |-> 0],
        [Row |-> 15, Col |-> 15, Color |-> 2]>>,
      <<[Row |-> 1, Col |-> 0, Color |-> 0],
        [Row |-> 1, Col |-> 3, Color |-> 0]>> }

\* the full frames of the concurrent SetState calls
CallFrames ==
    { [seq |-> 65535, frame |-> PatternFrame],
      [seq |-> 0, frame |-> BlankFrame] }

\* a bug: Lock does not wait for the readers and the writer to leave
CanLock_always(m) == TRUE

\* sync.RWMutex.Lock returns when nobody holds the lock
CanLock(m) == m.w = NoHolder /\ m.r = {}

\* a bug: RLock does not wait for the writer to leave
CanRLock_always(m) == TRUE

\* sync.RWMutex.RLock returns when no writer holds the lock
CanRLock(m) == m.w = NoHolder

nonLocked == <<rvars, ccalls, clast, wvars, mvars>>

Goto(h, pc) == kpc' = [kpc EXCEPT ![h] = pc]

\* the handlers that are inside GetState or EncodeFullFrame, lock not yet released
Readers ==
    {h \in Handlers :
        kpc[h] \in {"get_rlock", "get_red", "get_green", "get_blue", "get_seq",
                    "get_runlock", "enc_rlock", "enc_seq", "enc_red",
                    "enc_green", "enc_blue", "enc_runlock"}}

\* history: a mutation has completed and left canvas c; every reader under
\* way notes c as a state that existed during its call
NoteCommit(h, c, locals) ==
    kloc' = [g \in Handlers |->
                IF g = h THEN locals
                ELSE IF g \in Readers
                     THEN [kloc[g] EXCEPT !.cands = @ \union {c}]
                     ELSE kloc[g]]

\* a message is taken up by an idle handler
TakeUp(h, pc, locals) ==
    /\ kpc[h] = "idle"
    /\ kops < MaxOps
    /\ kops' = kops + 1
    /\ Goto(h, pc)
    /\ kloc' = [kloc EXCEPT ![h] = locals]
    /\ UNCHANGED <<kpub, cmu, committed, lastMut, applied>>
    /\ UNCHANGED <<red, green, blue, sequence>>
    /\ UNCHANGED nonLocked

\* HandleDeviceUpdates calls ApplyUpdates(updates)
ApplyCall(h, updates) ==
    /\ kpc[h] = "idle"
    /\ TakeUp(h, "apply_lock",
           [op |-> "apply", updates |-> updates, i |-> 1, tmp |-> 0,
            ret |-> 0, during |-> cmu.w])

\* ApplyUpdates: c.mu.Lock()
ApplyLock(h) ==
    /\ kpc[h] = "apply_lock"
    /\ CanLock(cmu)
    /\ cmu' = [cmu EXCEPT !.w = h]
    /\ Goto(h, "apply_loop")
    /\ UNCHANGED <<kloc, kpub, kops, committed, lastMut, applied>>
    /\ UNCHANGED <<red, green, blue, sequence>>
    /\ UNCHANGED nonLocked

\* ApplyUpdates: the next update of the loop: skipped, or its row is read
ApplyNext(h) ==
    /\ kpc[h] = "apply_loop"
    /\ LET l == kloc[h]
       IN  IF l.i > Len(l.updates)
           THEN /\ Goto(h, "apply_seq")
                /\ UNCHANGED kloc
           ELSE LET update == l.updates[l.i]
                IN  IF update.Row > 15 \/ update.Col > 15 \/ update.Color > 2
                    THEN /\ kloc' = [kloc EXCEPT ![h].i = @ + 1]
                         /\ UNCHANGED kpc
                    ELSE /\ Goto(h, "apply_or")
                         /\ kloc' = [kloc EXCEPT ![h].tmp =
                                        CASE update.Color = 0 -> red[update.Row]
                                          [] update.Color = 1 -> green[update.Row]
                                          [] update.Color = 2 -> blue[update.Row]]
    /\ UNCHANGED <<kpub, kops, cmu, committed, lastMut, applied>>
    /\ UNCHANGED <<red, green, blue, sequence>>
    /\ UNCHANGED nonLocked

\* ApplyUpdates: the row read, with the bit of the update, is written back
ApplyOr(h) ==
    /\ kpc[h] = "apply_or"
    /\ LET l == kloc[h]
           update == l.updates[l.i]
           value == BitOr(l.tmp, Shl16(update.Col))
       IN  /\ red' = IF update.Color = 0
                     THEN [red EXCEPT ![update.Row] = value] ELSE red
           /\ green' = IF update.Color = 1
                       THEN [green EXCEPT ![update.Row] = value] ELSE green
           /\ blue' = IF update.Color = 2
                      THEN [blue EXCEPT ![update.Row] = value] ELSE blue
    /\ kloc' = [kloc EXCEPT ![h].i = @ + 1]
    /\ Goto(h, "apply_loop")
    /\ UNCHANGED <<kpub, kops, cmu, committed, lastMut, applied, sequence>>
    /\ UNCHANGED nonLocked

\* ApplyUpdates: c.sequence++ reads the sequence
ApplySeqRead(h) ==
    /\ kpc[h] = "apply_seq"
    /\ kloc' = [kloc EXCEPT ![h].tmp = sequence]
    /\ Goto(h, "apply_inc")
    /\ UNCHANGED <<kpub, kops, cmu, committed, lastMut, applied>>
    /\ UNCHANGED <<red, green, blue, sequence>>
    /\ UNCHANGED nonLocked

\* ApplyUpdates: c.sequence++ writes the sequence
ApplySeqWrite(h) ==
    /\ kpc[h] = "apply_inc"
    /\ sequence' = Inc16(kloc[h].tmp)
    /\ Goto(h, "apply_ret")
    /\ UNCHANGED <<kloc, kpub, kops, cmu, committed, lastMut, applied>>
    /\ UNCHANGED <<red, green, blue>>
    /\ UNCHANGED nonLocked

\* ApplyUpdates: return c.sequence and the deferred c.mu.Unlock()
ApplyReturn(h) ==
    /\ kpc[h] = "apply_ret"
    /\ cmu' = [cmu EXCEPT !.w = NoHolder]
    /\ committed' = CanvasNow
    /\ lastMut' = [op |-> "ApplyUpdates", updates |-> kloc[h].updates]
    /\ applied' =
          [applied EXCEPT
              !.n = @ + 1,
              !.rets = @ \union {sequence},
              !.bits = @ \union
                  {kloc[h].updates[i] : i \in
                      {j \in 1 .. Len(kloc[h].updates) :
                          LET update == kloc[h].updates[j]
                          IN  update.Row <= 15 /\ update.Col <= 15
                              /\ update.Color <= 2}}]
    /\ NoteCommit(h, CanvasNow, [kloc[h] EXCEPT !.ret = sequence])
    /\ Goto(h, "done")
    /\ UNCHANGED <<kpub, kops>>
    /\ UNCHANGED <<red, green, blue, sequence>>
    /\ UNCHANGED nonLocked

\* HandleFullFrameUpdate calls SetState(seq, red, green, blue)
SetStateCall(h, seq, r, g, b) ==
    /\ kpc[h] = "idle"
    /\ TakeUp(h, "set_lock",
           [op |-> "set", seq |-> seq, red |-> r, green |-> g, blue |-> b])

\* SetState: c.mu.Lock()
SetStateLock(h) ==
    /\ kpc[h] = "set_lock"
    /\ CanLock(cmu)
    /\ cmu' = [cmu EXCEPT !.w = h]
    /\ Goto(h, "set_seq")
    /\ UNCHANGED <<kloc, kpub, kops, committed, lastMut, applied>>
    /\ UNCHANGED <<red, green, blue, sequence>>
    /\ UNCHANGED nonLocked

\* a bug: a frame with a sequence lower than the current one is not taken
SetStateAssign_monotonic(h) ==
    /\ kpc[h] \in {"set_seq", "set_red", "set_green", "set_blue"}
    /\ IF kloc[h].seq < sequence
       THEN /\ Goto(h, "set_ret")
            /\ UNCHANGED <<red, green, blue, sequence>>
       ELSE /\ sequence' = kloc[h].seq
            /\ red' = kloc[h].red
            /\ green' = kloc[h].green
            /\ blue' = kloc[h].blue
            /\ Goto(h, "set_ret")
    /\ UNCHANGED <<kloc, kpub, kops, cmu, committed, lastMut, applied>>
    /\ UNCHANGED nonLocked

\* SetState: the four assignments, one at a time
SetStateAssign(h) ==
    /\ \/ /\ kpc[h] = "set_seq"
          /\ sequence' = kloc[h].seq
          /\ Goto(h, "set_red")
          /\ UNCHANGED <<red, green, blue>>
       \/ /\ kpc[h] = "set_red"
          /\ red' = kloc[h].red
          /\ Goto(h, "set_green")
          /\ UNCHANGED <<green, blue, sequence>>
       \/ /\ kpc[h] = "set_green"
          /\ green' = kloc[h].green
          /\ Goto(h, "set_blue")
          /\ UNCHANGED <<red, blue, sequence>>
       \/ /\ kpc[h] = "set_blue"
          /\ blue' = kloc[h].blue
          /\ Goto(h, "set_ret")
          /\ UNCHANGED <<red, green, sequence>>
    /\ UNCHANGED <<kloc, kpub, kops, cmu, committed, lastMut, applied>>
    /\ UNCHANGED nonLocked

\* SetState: the deferred c.mu.Unlock()
SetStateReturn(h) ==
    /\ kpc[h] = "set_ret"
    /\ cmu' = [cmu EXCEPT !.w = NoHolder]
    /\ committed' = CanvasNow
    /\ lastMut' = [op |-> "SetState", seq |-> kloc[h].seq,
                   red |-> kloc[h].red, green |-> kloc[h].green,
                   blue |-> kloc[h].blue, over |-> committed.sequence]
    /\ applied' = [base |-> kloc[h].seq, n |-> 0, rets |-> {}, bits |-> {}]
    /\ NoteCommit(h, CanvasNow, kloc[h])
    /\ Goto(h, "done")
    /\ UNCHANGED <<kpub, kops>>
    /\ UNCHANGED <<red, green, blue, sequence>>
    /\ UNCHANGED nonLocked

\* GetCanvasState calls GetState()
GetStateCall(h) ==
    /\ kpc[h] = "idle"
    /\ TakeUp(h, "get_rlock",
           [op |-> "get", red |-> BlankRows, green |-> BlankRows,
            blue |-> BlankRows, seq |-> 0, cands |-> {committed},
            after |-> lastMut])

\* HandleSyncRequest calls EncodeFullFrame()
SyncRequest(h) ==
    /\ kpc[h] = "idle"
    /\ TakeUp(h, "enc_rlock",
           [op |-> "sync", red |-> BlankRows, green |-> BlankRows,
            blue |-> BlankRows, seq |-> 0, cands |-> {committed},
            frame |-> <<>>, err |-> "", before |-> CanvasNow])

\* GetState and EncodeFullFrame: c.mu.RLock()
RLock(h) ==
    /\ kpc[h] \in {"get_rlock", "enc_rlock"}
    /\ CanRLock(cmu)
    /\ cmu' = [cmu EXCEPT !.r = @ \union {h}]
    /\ Goto(h, IF kpc[h] = "get_rlock" THEN "get_red" ELSE "enc_seq")
    /\ UNCHANGED <<kloc, kpub, kops, committed, lastMut, applied>>
    /\ UNCHANGED <<red, green, blue, sequence>>
    /\ UNCHANGED nonLocked

\* GetState: return c.red, c.green, c.blue, c.sequence, one read at a time
GetStateRead(h) ==
    /\ \/ /\ kpc[h] = "get_red"
          /\ kloc' = [kloc EXCEPT ![h].red = red]
          /\ Goto(h, "get_green")
       \/ /\ kpc[h] = "get_green"
          /\ kloc' = [kloc EXCEPT ![h].green = green]
          /\ Goto(h, "get_blue")
       \/ /\ kpc[h] = "get_blue"
          /\ kloc' = [kloc EXCEPT ![h].blue = blue]
          /\ Goto(h, "get_seq")
       \/ /\ kpc[h] = "get_seq"
          /\ kloc' = [kloc EXCEPT ![h].seq = sequence]
          /\ Goto(h, "get_runlock")
    /\ UNCHANGED <<kpub, kops, cmu, committed, lastMut, applied>>
    /\ UNCHANGED <<red, green, blue, sequence>>
    /\ UNCHANGED nonLocked

\* EncodeFullFrame: the sequence, then the channels, one read at a time
EncodeRead(h) ==
    /\ \/ /\ kpc[h] = "enc_seq"
          /\ kloc' = [kloc EXCEPT ![h].seq = sequence]
          /\ Goto(h, "enc_red")
       \/ /\ kpc[h] = "enc_red"
          /\ kloc' = [kloc EXCEPT ![h].red = red]
          /\ Goto(h, "enc_green")
       \/ /\ kpc[h] = "enc_green"
          /\ kloc' = [kloc EXCEPT ![h].green = green]
          /\ Goto(h, "enc_blue")
       \/ /\ kpc[h] = "enc_blue"
          /\ kloc' = [kloc EXCEPT ![h].blue = blue]
          /\ Goto(h, "enc_runlock")
    /\ UNCHANGED <<kpub, kops, cmu, committed, lastMut, applied>>
    /\ UNCHANGED <<red, green, blue, sequence>>
    /\ UNCHANGED nonLocked

\* GetState: the deferred c.mu.RUnlock(); the values read are returned
GetStateReturn(h) ==
    /\ kpc[h] = "get_runlock"
    /\ cmu' = [cmu EXCEPT !.r = @ \ {h}]
    /\ Goto(h, "done")
    /\ UNCHANGED <<kloc, kpub, kops, committed, lastMut, applied>>
    /\ UNCHANGED <<red, green, blue, sequence>>
    /\ UNCHANGED nonLocked

\* EncodeFullFrame: the deferred c.mu.RUnlock(); msg is returned
EncodeReturn(h) ==
    /\ kpc[h] = "enc_runlock"
    /\ cmu' = [cmu EXCEPT !.r = @ \ {h}]
    /\ kloc' = [kloc EXCEPT ![h].frame =
                   EncodeFrame(kloc[h].seq, kloc[h].red, kloc[h].green,
                               kloc[h].blue)]
    /\ Goto(h, "sync_publish")
    /\ UNCHANGED <<kpub, kops, committed, lastMut, applied>>
    /\ UNCHANGED <<red, green, blue, sequence>>
    /\ UNCHANGED nonLocked

\* the outcomes of waiting for a publish token
PublishOutcomes == {"ok", "timeout", "error"}

\* HandleSyncRequest: m.client.Publish(m.topic, 0, true, frame) and the wait
\* for its token; the error return skips the log line
SyncPublish(h) ==
    /\ kpc[h] = "sync_publish"
    /\ kpub' = [kpub EXCEPT ![h] =
                   [topic |-> TopicEtchSketch, qos |-> 0, retained |-> TRUE,
                    payload |-> kloc[h].frame]]
    /\ \E outcome \in PublishOutcomes :
          /\ kloc' = [kloc EXCEPT ![h].err = outcome]
          /\ Goto(h, IF outcome = "ok" THEN "sync_log" ELSE "done")
    /\ UNCHANGED <<kops, cmu, committed, lastMut, applied>>
    /\ UNCHANGED <<red, green, blue, sequence>>
    /\ UNCHANGED nonLocked

\* HandleSyncRequest: m.canvas.GetSequence() for the log line
SyncGetSequence(h) ==
    /\ \/ /\ kpc[h] = "sync_log"
          /\ CanRLock(cmu)
          /\ cmu' = [cmu EXCEPT !.r = @ \union {h}]
          /\ Goto(h, "sync_logged")
       \/ /\ kpc[h] = "sync_logged"
          /\ cmu' = [cmu EXCEPT !.r = @ \ {h}]
          /\ Goto(h, "done")
    /\ UNCHANGED <<kloc, kpub, kops, committed, lastMut, applied>>
    /\ UNCHANGED <<red, green, blue, sequence>>
    /\ UNCHANGED nonLocked

\* the handler returns and is ready for the next message
HandlerReturns(h) ==
    /\ kpc[h] = "done"
    /\ Goto(h, "idle")
    /\ kloc' = [kloc EXCEPT ![h] = NoLocals]
    /\ kpub' = [kpub EXCEPT ![h] = NoPublish]
    /\ UNCHANGED <<kops, cmu, committed, lastMut, applied>>
    /\ UNCHANGED <<red, green, blue, sequence>>
    /\ UNCHANGED nonLocked

NextLocked ==
    \/ \E h \in Handlers, updates \in CallBatches : ApplyCall(h, updates)
    \/ \E h \in Handlers : ApplyLock(h)
    \/ \E h \in Handlers : ApplyNext(h)
    \/ \E h \in Handlers : ApplyOr(h)
    \/ \E h \in Handlers : ApplySeqRead(h)
    \/ \E h \in Handlers : ApplySeqWrite(h)
    \/ \E h \in Handlers : ApplyReturn(h)
    \/ \E h \in Handlers, f \in CallFrames :
          SetStateCall(h, f.seq, f.frame.red, f.frame.green, f.frame.blue)
    \/ \E h \in Handlers : SetStateLock(h)
    \/ \E h \in Handlers : SetStateAssign(h)
    \/ \E h \in Handlers : SetStateReturn(h)
    \/ \E h \in Handlers : GetStateCall(h)
    \/ \E h \in Handlers : SyncRequest(h)
    \/ \E h \in Handlers : RLock(h)
    \/ \E h \in Handlers : GetStateRead(h)
    \/ \E h \in Handlers : EncodeRead(h)
    \/ \E h \in Handlers : GetStateReturn(h)
    \/ \E h \in Handlers : EncodeReturn(h)
    \/ \E h \in Handlers : SyncPublish(h)
    \/ \E h \in Handlers : SyncGetSequence(h)
    \/ \E h \in Handlers : HandlerReturns(h)

SpecLocked == Init /\ [][NextLocked]_vars

(***************************************************************************)
(* Canvas under concurrent handlers: properties                            *)
(***************************************************************************)
\* the values a GetState or an EncodeFullFrame has read, as a canvas value
ReadBy(h) ==
    [red |-> kloc[h].red, green |-> kloc[h].green, blue |-> kloc[h].blue,
     sequence |-> kloc[h].seq]

\* the payload of a frame message: the bytes after the two header bytes
FramePayload(msg) == SubSeq(msg, 3, Len(msg))

\* C11: a GetState called after a SetState(seq, red, green, blue) has
\* completed, with no mutation completing during the call, returns exactly
\* (red, green, blue, seq): also when seq is lower than the sequence that
\* the SetState replaced.
C11_SetStateThenGetState ==
    \A h \in Handlers :
        ( /\ kpc[h] = "done"
          /\ kloc[h].op = "get"
          /\ kloc[h].after.op = "SetState"
          /\ Cardinality(kloc[h].cands) = 1 )
        => /\ kloc[h].red = kloc[h].after.red
           /\ kloc[h].green = kloc[h].after.green
           /\ kloc[h].blue = kloc[h].after.blue
           /\ kloc[h].seq = kloc[h].after.seq

\* C11 witness: GetState has returned the blank frame with sequence 0 that a
\* SetState put in place of a canvas with sequence 65535
C11_Witness ==
    \E h \in Handlers :
        /\ kpc[h] = "done"
        /\ kloc[h].op = "get"
        /\ kloc[h].after.op = "SetState"
        /\ kloc[h].after.over = 65535
        /\ kloc[h].after.seq = 0
        /\ Cardinality(kloc[h].cands) = 1
        /\ kloc[h].seq = 0
        /\ kloc[h].red = BlankRows

\* C12: what a GetState returns, and what an EncodeFullFrame encodes, is the
\* canvas as one completed mutation (or NewCanvas) left it, a state that
\* existed during the call: channels and sequence never come from two
\* different mutations or from a mutation under way.
C12_SnapshotsAreConsistent ==
    \A h \in Handlers :
        /\ (kpc[h] = "done" /\ kloc[h].op = "get") =>
               ReadBy(h) \in kloc[h].cands
        /\ (kloc[h].op = "sync" /\ kloc[h].frame # <<>>) =>
               \E c \in kloc[h].cands :
                  kloc[h].frame =
                      EncodeFrame(c.sequence, c.red, c.green, c.blue)

\* C12 witness: a GetState that was called while a SetState held the lock
\* has returned the frame and the sequence of that SetState
C12_Witness ==
    \E h \in Handlers :
        /\ kpc[h] = "done"
        /\ kloc[h].op = "get"
        /\ kloc[h].after.op = "NewCanvas"
        /\ Cardinality(kloc[h].cands) = 2
        /\ kloc[h].seq = 65535
        /\ ReadBy(h) = [red |-> PatternFrame.red, green |-> PatternFrame.green,
                        blue |-> PatternFrame.blue, sequence |-> 65535]

\* C13: whenever no mutation holds the lock, the sequence is the one of the
\* latest SetState (or NewCanvas) plus the number N of ApplyUpdates calls
\* completed since, modulo 2^16; these N calls returned N different values;
\* and every in-range bit of their batches is set.
C13_NoLostIncrement ==
    cmu.w = NoHolder =>
        /\ sequence = (applied.base + applied.n) % 65536
        /\ Cardinality(applied.rets) = applied.n
        /\ \A update \in applied.bits :
              /\ update.Color = 0 => Bit(red[update.Row], update.Col) = 1
              /\ update.Color = 1 => Bit(green[update.Row], update.Col) = 1
              /\ update.Color = 2 => Bit(blue[update.Row], update.Col) = 1

\* C13 witness: two ApplyUpdates calls, one made while the other held the
\* lock, have both completed after the sequence had been set to 65535: they
\* returned 0 and 1, and the bits of both are set
C13_Witness ==
    /\ cmu.w = NoHolder
    /\ applied.base = 65535
    /\ applied.n = 2
    /\ applied.rets = {0, 1}
    /\ sequence = 1
    /\ Cardinality(applied.bits) = 2
    /\ \A h \in Handlers : kpc[h] = "done" /\ kloc[h].op = "apply"
    /\ \E h \in Handlers : kloc[h].during \in Handlers \ {h}

\* C14: the message a sync request publishes is a retained QoS 0 message on
\* the canvas topic, a full frame (type 0x21, length 98) which decodes to the
\* channels and the sequence the canvas had when EncodeFullFrame returned
\* it; and no step of the sync request changes the channels or the sequence.
C14_SyncPublishesCurrentFrame ==
    [][ \A h \in Handlers :
           /\ (kpc[h] = "enc_runlock" /\ kpc'[h] = "sync_publish") =>
                  /\ Len(kloc'[h].frame) = 100
                  /\ DecodeFullFrame(FramePayload(kloc'[h].frame))
                        = [err |-> NoError] @@ CanvasNow
           /\ (kpc[h] = "sync_publish" /\ kpc'[h] # "sync_publish") =>
                  /\ kpub'[h].topic = TopicEtchSketch
                  /\ kpub'[h].qos = 0
                  /\ kpub'[h].retained
                  /\ kpub'[h].payload = kloc[h].frame
                  /\ kpub'[h].payload[1] = 33
                  /\ kpub'[h].payload[2] = 98
           /\ (kloc[h].op = "sync" /\ kpc'[h] # kpc[h]) =>
                  UNCHANGED <<red, green, blue, sequence>> ]_vars

\* C14 witness: a sync request has published the pattern frame with
\* sequence 65535, and the canvas still holds both
C14_Witness ==
    \E h \in Handlers :
        /\ kpc[h] = "sync_log"
        /\ kpub[h].retained
        /\ DecodeFullFrame(FramePayload(kpub[h].payload)).red[7] = 65535
        /\ DecodeFullFrame(FramePayload(kpub[h].payload)).green[15] = 32768
        /\ DecodeFullFrame(FramePayload(kpub[h].payload)).sequence = 65535
        /\ CanvasNow = [red |-> PatternFrame.red, green |-> PatternFrame.green,
                        blue |-> PatternFrame.blue, sequence |-> 65535]

(***************************************************************************)
(* Wire codec: message header, device config, heartbeat, version           *)
(* Strings and payloads are sequences of bytes.                            *)
(***************************************************************************)
MSG_GENERIC == 0
MSG_CURRENT_WEATHER == 1
MSG_FORECAST_WEATHER == 2
MSG_DEVICE_CONFIG == 3
MSG_VERSION == 16
MSG_HEARTBEAT == 17
MAX_PAYLOAD_SIZE == 255

\* the conversions uint8(x) and int8(x) of an integer
Uint8(x) == x % 256
Int8(x) == ((x + 128) % 256) - 128

\* a bug: a frame whose payload fills the buffer is refused
DecodeMessage_offByOne(bytes) ==
    IF Len(bytes) < 2
    THEN [err |-> "message too short", msgType |-> 0, payload |-> <<>>]
    ELSE IF bytes[2] >= Len(bytes) - 2
    THEN [err |-> "invalid length field", msgType |-> 0, payload |-> <<>>]
    ELSE [err |-> NoError, msgType |-> bytes[1],
          payload |-> SubSeq(bytes, 3, 2 + bytes[2])]

\* a bug: the length byte is not checked against the buffer
DecodeMessage_noLengthCheck(bytes) ==
    IF Len(bytes) < 2
    THEN [err |-> "message too short", msgType |-> 0, payload |-> <<>>]
    ELSE [err |-> NoError, msgType |-> bytes[1],
          payload |-> SubSeq(bytes, 3,
                             IF 2 + bytes[2] < Len(bytes)
                             THEN 2 + bytes[2] ELSE Len(bytes))]

\* a bug: the payload is everything after the header
DecodeMessage_wholeTail(bytes) ==
    IF Len(bytes) < 2
    THEN [err |-> "message too short", msgType |-> 0, payload |-> <<>>]
    ELSE IF bytes[2] > Len(bytes) - 2
    THEN [err |-> "invalid length field", msgType |-> 0, payload |-> <<>>]
    ELSE [err |-> NoError, msgType |-> bytes[1],
          payload |-> SubSeq(bytes, 3, Len(bytes))]

\* DecodeMessage: type and payload of a message, or an error
DecodeMessage(bytes) ==
    IF Len(bytes) < 2
    THEN [err |-> "message too short", msgType |-> 0, payload |-> <<>>]
    ELSE IF bytes[2] > Len(bytes) - 2
    THEN [err |-> "invalid length field", msgType |-> 0, payload |-> <<>>]
    ELSE IF bytes[2] > MAX_PAYLOAD_SIZE
    THEN [err |-> "payload too large", msgType |-> 0, payload |-> <<>>]
    ELSE [err |-> NoError, msgType |-> bytes[1],
          payload |-> SubSeq(bytes, 3, 2 + bytes[2])]

\* DecodeDeviceConfig: the loop, with i strings still to read from offset;
\* index is the number of the string that the error message names, read is
\* the number of bytes of the payload that have been read
RECURSIVE DecodeStrings(_, _, _, _)
DecodeStrings(payload, offset, i, result) ==
    IF i = 0
    THEN [err |-> NoError, strs |-> result, index |-> 0, read |-> offset]
    ELSE IF offset >= Len(payload)
    THEN [err |-> "payload truncated: length field", strs |-> <<>>,
          index |-> Len(result) + 1, read |-> offset]
    ELSE LET stringLen == payload[offset + 1]
         IN  IF offset + 1 + stringLen > Len(payload)
             THEN [err |-> "payload truncated: string", strs |-> <<>>,
                   index |-> Len(result) + 1, read |-> offset + 1]
             ELSE DecodeStrings(payload, offset + 1 + stringLen, i - 1,
                                Append(result,
                                       SubSeq(payload, offset + 2,
                                              offset + 1 + stringLen)))

\* a bug: an empty payload is taken as an empty list
DecodeDeviceConfig_emptyOk(payload) ==
    IF Len(payload) < 1
    THEN [err |-> NoError, strs |-> <<>>, index |-> 0, read |-> 0]
    ELSE DecodeStrings(payload, 1, payload[1], <<>>)

\* DecodeDeviceConfig: the strings of a device config payload, or an error
DecodeDeviceConfig(payload) ==
    IF Len(payload) < 1
    THEN [err |-> "payload too short", strs |-> <<>>, index |-> 0,
          read |-> 0]
    ELSE DecodeStrings(payload, 1, payload[1], <<>>)

\* a bug: the strings are written without their lengths
RECURSIVE EncodeStrings_noLength(_)
EncodeStrings_noLength(strs) ==
    IF strs = <<>> THEN <<>>
    ELSE Head(strs) \o EncodeStrings_noLength(Tail(strs))

\* EncodeDeviceConfig: the strings, each after its length
RECURSIVE EncodeStrings(_)
EncodeStrings(strs) ==
    IF strs = <<>> THEN <<>>
    ELSE <<Uint8(Len(Head(strs)))>> \o Head(strs)
            \o EncodeStrings(Tail(strs))

\* EncodeDeviceConfig: the sum of the lengths of the strings
RECURSIVE SumLen(_)
SumLen(strs) ==
    IF strs = <<>> THEN 0 ELSE Len(Head(strs)) + SumLen(Tail(strs))

\* a bug: the size of the payload is not checked
PayloadFits_always(payloadLen) == TRUE

\* EncodeDeviceConfig: the check of payloadLen
PayloadFits(payloadLen) == payloadLen <= MAX_PAYLOAD_SIZE

\* a bug: the length byte counts the header too
EncodeDeviceConfig_frameLength(strs) ==
    LET payloadLen == 1 + Len(strs) + SumLen(strs)
    IN  IF Len(strs) > 255
        THEN [err |-> "too many strings", msg |-> <<>>]
        ELSE IF \E i \in 1 .. Len(strs) : Len(strs[i]) > 255
        THEN [err |-> "string length exceeds maximum", msg |-> <<>>]
        ELSE IF ~PayloadFits(payloadLen)
        THEN [err |-> "payload too large", msg |-> <<>>]
        ELSE [err |-> NoError,
              msg |-> <<MSG_DEVICE_CONFIG, Uint8(2 + payloadLen),
                        Uint8(Len(strs))>> \o EncodeStrings(strs)]

\* EncodeDeviceConfig: the message, or an error and no message
EncodeDeviceConfig(strs) ==
    LET payloadLen == 1 + Len(strs) + SumLen(strs)
    IN  IF Len(strs) > 255
        THEN [err |-> "too many strings", msg |-> <<>>]
        ELSE IF \E i \in 1 .. Len(strs) : Len(strs[i]) > 255
        THEN [err |-> "string length exceeds maximum", msg |-> <<>>]
        ELSE IF ~PayloadFits(payloadLen)
        THEN [err |-> "payload too large", msg |-> <<>>]
        ELSE [err |-> NoError,
              msg |-> <<MSG_DEVICE_CONFIG, Uint8(payloadLen),
                        Uint8(Len(strs))>> \o EncodeStrings(strs)]

\* EncodeVersion
EncodeVersion(version) == <<MSG_VERSION, 1, version>>

\* EncodeGeneric: msg[1] = uint8(len(payload))
EncodeGeneric(payload) == <<MSG_GENERIC, Uint8(Len(payload))>> \o payload

\* EncodeCurrentWeather: temp + 50 is computed in int8
EncodeCurrentWeather(temp) ==
    <<MSG_CURRENT_WEATHER, 1, Uint8(Int8(temp + 50))>>

\* EncodeForecast: the three bytes of each day
RECURSIVE EncodeDays(_)
EncodeDays(days) ==
    IF days = <<>> THEN <<>>
    ELSE <<Head(days).HighTemp, Head(days).Precip, Head(days).Moon>>
            \o EncodeDays(Tail(days))

\* EncodeForecast: msg[1] = uint8(payloadLen), msg[2] = uint8(len(days))
EncodeForecast(days) ==
    LET payloadLen == 1 + Len(days) * 3
    IN  <<MSG_FORECAST_WEATHER, Uint8(payloadLen), Uint8(Len(days))>>
            \o EncodeDays(days)

\* a bug: the column is packed into the upper 4 bits
RECURSIVE EncodePixels_colFirst(_)
EncodePixels_colFirst(updates) ==
    IF updates = <<>> THEN <<>>
    ELSE LET pixel == Head(updates)
         IN  <<Uint8((pixel.Col % 16) * 16) + (pixel.Row % 16), pixel.Color>>
                 \o EncodePixels_colFirst(Tail(updates))

\* EncodeUpdates: the two bytes of each pixel, row and column packed
RECURSIVE EncodePixels(_)
EncodePixels(updates) ==
    IF updates = <<>> THEN <<>>
    ELSE LET pixel == Head(updates)
         IN  <<Uint8((pixel.Row % 16) * 16) + (pixel.Col % 16), pixel.Color>>
                 \o EncodePixels(Tail(updates))

\* EncodeUpdates: at most 32 updates are encoded
MSG_TYPE_SHARED_VIEW_UPDATES == 34
MaxUpdates == 32
EncodeUpdates(seq, updates) ==
    LET kept == IF Len(updates) > MaxUpdates
                THEN SubSeq(updates, 1, MaxUpdates) ELSE updates
        payloadLen == 3 + Len(kept) * 2
    IN  <<MSG_TYPE_SHARED_VIEW_UPDATES, Uint8(payloadLen)>>
            \o PutUint16BE(seq) \o <<Uint8(Len(kept))>> \o EncodePixels(kept)

\* DecodeUpdates: the sequence number and the updates of a payload, or
\* ErrInvalidPayload
DecodeUpdates(payload) ==
    IF Len(payload) < 3
    THEN [err |-> "invalid payload", seq |-> 0, updates |-> <<>>]
    ELSE IF Len(payload) < 3 + payload[3] * 2
    THEN [err |-> "invalid payload", seq |-> 0, updates |-> <<>>]
    ELSE [err |-> NoError,
          seq |-> Uint16BE(payload, 1),
          updates |-> [i \in 1 .. payload[3] |->
                          [Row |-> (payload[2 + 2 * i] \div 16) % 16,
                           Col |-> payload[2 + 2 * i] % 16,
                           Color |-> payload[3 + 2 * i]]]]

\* a bug: the type byte is not checked
ParseHeartbeatMessage_anyType(bytes) ==
    IF Len(bytes) < 3
    THEN [err |-> "heartbeat message too short", name |-> <<>>]
    ELSE IF Len(bytes) < 2 + bytes[2]
    THEN [err |-> "heartbeat payload length mismatch", name |-> <<>>]
    ELSE LET msgPayload == SubSeq(bytes, 3, 2 + bytes[2])
         IN  IF Len(msgPayload) < 1
             THEN [err |-> "heartbeat payload missing device name length",
                   name |-> <<>>]
             ELSE IF Len(msgPayload) < 1 + msgPayload[1]
             THEN [err |-> "heartbeat device name length mismatch",
                   name |-> <<>>]
             ELSE [err |-> NoError,
                   name |-> SubSeq(msgPayload, 2, 1 + msgPayload[1])]

\* parseHeartbeatMessage: the device name, or an error
ParseHeartbeatMessage(bytes) ==
    IF Len(bytes) < 3
    THEN [err |-> "heartbeat message too short", name |-> <<>>]
    ELSE IF bytes[1] # MSG_HEARTBEAT
    THEN [err |-> "invalid heartbeat message type", name |-> <<>>]
    ELSE IF Len(bytes) < 2 + bytes[2]
    THEN [err |-> "heartbeat payload length mismatch", name |-> <<>>]
    ELSE LET msgPayload == SubSeq(bytes, 3, 2 + bytes[2])
         IN  IF Len(msgPayload) < 1
             THEN [err |-> "heartbeat payload missing device name length",
                   name |-> <<>>]
             ELSE IF Len(msgPayload) < 1 + msgPayload[1]
             THEN [err |-> "heartbeat device name length mismatch",
                   name |-> <<>>]
             ELSE [err |-> NoError,
                   name |-> SubSeq(msgPayload, 2, 1 + msgPayload[1])]

\* the white space of strings.TrimSpace: tab, line feed, vertical tab, form
\* feed, carriage return, space
WhiteSpace == {9, 10, 11, 12, 13, 32}

\* strings.TrimSpace
RECURSIVE TrimSpace(_)
TrimSpace(str) ==
    IF str = <<>> THEN <<>>
    ELSE IF Head(str) \in WhiteSpace THEN TrimSpace(Tail(str))
    ELSE IF str[Len(str)] \in WhiteSpace
    THEN TrimSpace(SubSeq(str, 1, Len(str) - 1))
    ELSE str

(***************************************************************************)
(* Session coordinator: inputs                                             *)
(***************************************************************************)
\* "D1", "D2"
NameD1 == <<68, 49>>
NameD2 == <<68, 50>>
\* "78757", "60601"
Zip78757 == <<55, 56, 55, 53, 55>>
Zip60601 == <<54, 48, 54, 48, 49>>

\* bootup messages that handle_device_bootup accepts: device D1 with either
\* zipcode, and with white space around both strings
GoodBootups ==
    { EncodeDeviceConfig(<<NameD1, Zip78757>>).msg,
      EncodeDeviceConfig(<<NameD1, Zip60601>>).msg,
      EncodeDeviceConfig(<<<<32>> \o NameD1, Zip78757 \o <<10>>>>).msg }

\* bootup messages that it rejects: one byte only; length field beyond the
\* data; type 0x01; a string longer than the payload; one string only; a
\* blank device name; an empty zipcode
BadBootups ==
    { <<MSG_DEVICE_CONFIG>>,
      <<MSG_DEVICE_CONFIG, 20, 2, 2, 68, 49>>,
      <<MSG_CURRENT_WEATHER, 1, 85>>,
      <<MSG_DEVICE_CONFIG, 3, 2, 5, 68>>,
      EncodeDeviceConfig(<<NameD1>>).msg,
      EncodeDeviceConfig(<<<<32, 32>>, Zip78757>>).msg,
      EncodeDeviceConfig(<<NameD1, <<>>>>).msg }

\* heartbeat messages: of D1, of D2 (which never boots), of type 0x10, with
\* an empty name
HeartbeatPayloads ==
    { <<MSG_HEARTBEAT, 3, 2>> \o NameD1,
      <<MSG_HEARTBEAT, 3, 2>> \o NameD2,
      <<MSG_VERSION, 3, 2>> \o NameD1,
      <<MSG_HEARTBEAT, 1, 0>> }

\* last-will messages: the raw device name, or nothing
OfflinePayloads == {NameD1, <<>>}

\* the build: config_prod.go
IsDebugBuild == FALSE
\* "weather", "debug_"
TopicWeatherPrefix == <<119, 101, 97, 116, 104, 101, 114>>
DebugPrefix == <<100, 101, 98, 117, 103, 95>>

\* weather timing, in minutes
WeatherValidityPeriod == 35
ForecastValidityPeriod == 370
\* the clock advances by MinutesStep up to MaxMinutes
MinutesStep == 36
MaxMinutes == 36

\* getDeviceVersion: the version of the runtime configuration
DeviceVersion == 1

\* number of messages the coordinator handles in a behaviour
MaxMessages == 2

(***************************************************************************)
(* Session coordinator: weather store and topics                           *)
(***************************************************************************)
\* WeatherData{}: no payloads, empty timestamps
NoWeatherData ==
    [current_weather |-> FALSE, current_weather_updated |-> <<>>,
     forecast_weather |-> FALSE, forecast_weather_updated |-> <<>>]

\* GetStoredWeatherData: the record of the zipcode and whether it exists
GetStoredWeatherData(zip) ==
    IF zip \in DOMAIN wstore
    THEN [exists |-> TRUE, val |-> wstore[zip]]
    ELSE [exists |-> FALSE, val |-> NoWeatherData]

\* a bug: the age of the stored weather is not looked at
IsWeatherValid_anyAge(exists, val, data_type, t) ==
    IF ~exists THEN FALSE
    ELSE IF data_type = "current_weather"
    THEN val.current_weather_updated # <<>>
    ELSE IF data_type = "forecast_weather"
    THEN val.forecast_weather_updated # <<>>
    ELSE FALSE

\* a bug: stored weather is never taken as valid
IsWeatherValid_never(exists, val, data_type, t) == FALSE

\* is_weather_valid, from the record read and the time t
IsWeatherValid(exists, val, data_type, t) ==
    IF ~exists THEN FALSE
    ELSE IF data_type = "current_weather"
    THEN IF val.current_weather_updated = <<>> THEN FALSE
         ELSE t - val.current_weather_updated[1] <= WeatherValidityPeriod
    ELSE IF data_type = "forecast_weather"
    THEN IF val.forecast_weather_updated = <<>> THEN FALSE
         ELSE t - val.forecast_weather_updated[1] <= ForecastValidityPeriod
    ELSE FALSE

\* Store_weather: the record written for the zipcode at time t
StoreWeather(zip, data_type, t) ==
    LET rec == GetStoredWeatherData(zip).val
    IN  (zip :> (IF data_type = "current_weather"
                 THEN [rec EXCEPT !.current_weather = TRUE,
                                   !.current_weather_updated = <<t>>]
                 ELSE [rec EXCEPT !.forecast_weather = TRUE,
                                   !.forecast_weather_updated = <<t>>]))
        @@ wstore

\* publish_weather: msg_topic
WeatherTopic(zip) == TopicWeatherPrefix \o <<47>> \o zip

\* publish_version_notification: topicName
CommandTopic(deviceName) ==
    IF IsDebugBuild THEN DebugPrefix \o deviceName ELSE deviceName

\* the type byte of the weather message; its values come from the stored
\* payload, whose content is left out
WeatherMessage(data_type) ==
    IF data_type = "current_weather" THEN <<MSG_CURRENT_WEATHER>>
    ELSE <<MSG_FORECAST_WEATHER>>

(***************************************************************************)
(* Session coordinator: msg_handler, step by step                          *)
(***************************************************************************)
canvasState ==
    <<red, green, blue, sequence, ccalls, clast, cmu, committed, lastMut,
      applied>>
registryState == <<devices, mu, data, file, tmp, lastSaveOk>>
registryRest == <<smu, now, hpc, hargs, herr, boots>>

\* a bootup message has been rejected and its handler has not returned yet
SomeRejected ==
    \E g \in Handlers :
       /\ kpc[g] = "done"
       /\ kloc[g].op = "bootup"
       /\ kloc[g].verdict # "accepted"

\* the local variables of a bootup, heartbeat or last-will handler; stage and
\* afterReject are history: the rank of the latest thing the handler has
\* done, and whether the message arrived after the rejection of another
CoordLocals(op, payload) ==
    [op |-> op, payload |-> payload, name |-> <<>>, zip |-> <<>>,
     known |-> FALSE, phase |-> "", kind |-> "", exists |-> FALSE,
     val |-> NoWeatherData, version |-> 0, verdict |-> "", stage |-> 0,
     afterReject |-> SomeRejected]

\* the things a handler does, in the order of handle_device_bootup: the
\* registry call, the fetches, the publications, the version notification
EventRank(ev, kind) ==
    IF ev = "registry" THEN 1
    ELSE IF ev = "fetch" THEN (IF kind = "current_weather" THEN 2 ELSE 3)
    ELSE IF ev = "publish" THEN (IF kind = "current_weather" THEN 4 ELSE 5)
    ELSE 6

\* the handler moves to pc with locals
Step(h, pc, locals) ==
    /\ Goto(h, pc)
    /\ kloc' = [kloc EXCEPT ![h] = locals]

\* a bug: the deferred RUnlock is missing
RUnlockBy_never(m, h) == m

\* sync.RWMutex.RUnlock by reader h
RUnlockBy(m, h) == [m EXCEPT !.r = @ \ {h}]

\* a bug: manager.mu stays locked after the registry call
ReleaseRegistry_never(h) == h

\* the deferred manager.mu.Unlock(): the holder afterwards
ReleaseRegistry(h) == NoHolder

\* the locks that handler h holds
Held(h) ==
    (IF mu = h THEN {"manager.mu"} ELSE {})
    \union (IF cmu.w = h \/ h \in cmu.r THEN {"Canvas.mu"} ELSE {})
    \union (IF wmu.w = h \/ h \in wmu.r THEN {"weather.mu"} ELSE {})
    \union (IF configMutex.w = h \/ h \in configMutex.r
            THEN {"configMutex"} ELSE {})

\* the positions at which a handler is about to use the network: an HTTP
\* fetch or a publish
NetworkPcs == {"w_fetch", "w_publish", "v_publish", "sync_publish"}

\* msg_handler: a message on etchsketchTopic that asks for the full frame
SyncMessage(h) ==
    /\ kpc[h] = "idle"
    /\ kops < MaxMessages
    /\ SyncRequest(h)

\* msg_handler: a message on TopicBootup; one bootup is handled at a time,
\* the messages of the other topics are handled while it is under way
BootupMessage(h, payload) ==
    /\ kpc[h] = "idle"
    /\ kops < MaxMessages
    /\ \A g \in Handlers : kloc[g].op # "bootup"
    /\ TakeUp(h, "b_decode", CoordLocals("bootup", payload))

\* msg_handler: a message on TopicHeartbeat
HeartbeatMessage(h, payload) ==
    /\ kpc[h] = "idle"
    /\ kops < MaxMessages
    /\ TakeUp(h, "hb_parse", CoordLocals("heartbeat", payload))

\* msg_handler: a message on TopicOffline
OfflineMessage(h, payload) ==
    /\ kpc[h] = "idle"
    /\ kops < MaxMessages
    /\ TakeUp(h, "off_check", CoordLocals("offline", payload))

\* a bug: the strings are not trimmed before the test for emptiness
BootupVerdict_noTrim(payload) ==
    LET msg == DecodeMessage(payload)
        cfg == DecodeDeviceConfig(msg.payload)
    IN  IF msg.err # NoError
        THEN [verdict |-> "decode message", name |-> <<>>, zip |-> <<>>]
        ELSE IF msg.msgType # MSG_DEVICE_CONFIG
        THEN [verdict |-> "message type", name |-> <<>>, zip |-> <<>>]
        ELSE IF cfg.err # NoError
        THEN [verdict |-> "decode device config", name |-> <<>>, zip |-> <<>>]
        ELSE IF Len(cfg.strs) < 2
        THEN [verdict |-> "strings", name |-> <<>>, zip |-> <<>>]
        ELSE IF cfg.strs[1] = <<>> \/ cfg.strs[2] = <<>>
        THEN [verdict |-> "empty", name |-> <<>>, zip |-> <<>>]
        ELSE [verdict |-> "accepted", name |-> cfg.strs[1],
              zip |-> cfg.strs[2]]

\* handle_device_bootup: what the decoding of the payload leads to
BootupVerdict(payload) ==
    LET msg == DecodeMessage(payload)
        cfg == DecodeDeviceConfig(msg.payload)
        deviceName == TrimSpace(cfg.strs[1])
        zipcode == TrimSpace(cfg.strs[2])
    IN  IF msg.err # NoError
        THEN [verdict |-> "decode message", name |-> <<>>, zip |-> <<>>]
        ELSE IF msg.msgType # MSG_DEVICE_CONFIG
        THEN [verdict |-> "message type", name |-> <<>>, zip |-> <<>>]
        ELSE IF cfg.err # NoError
        THEN [verdict |-> "decode device config", name |-> <<>>, zip |-> <<>>]
        ELSE IF Len(cfg.strs) < 2
        THEN [verdict |-> "strings", name |-> <<>>, zip |-> <<>>]
        ELSE IF deviceName = <<>> \/ zipcode = <<>>
        THEN [verdict |-> "empty", name |-> <<>>, zip |-> <<>>]
        ELSE [verdict |-> "accepted", name |-> deviceName, zip |-> zipcode]

\* handle_device_bootup: the zipcode handed to is_weather_valid, fetch_weather
\* and publish_weather is the one of the message
WeatherZip(deviceName, zipcode) == zipcode

\* handle_device_bootup: the message is decoded and checked
BootupDecode(h) ==
    /\ kpc[h] = "b_decode"
    /\ \E v \in {BootupVerdict(kloc[h].payload)} :
          Step(h, IF v.verdict = "accepted" THEN "reg" ELSE "done",
               [kloc[h] EXCEPT !.verdict = v.verdict, !.name = v.name,
                               !.zip = v.zip, !.payload = <<>>])
    /\ UNCHANGED <<kpub, kops>>
    /\ UNCHANGED <<canvasState, registryState, registryRest, wvars, mvars>>

\* msg_handler: parseHeartbeatMessage and the test of the device name
HeartbeatParse(h) ==
    /\ kpc[h] = "hb_parse"
    /\ \E r \in {ParseHeartbeatMessage(kloc[h].payload)} :
          IF r.err # NoError
          THEN Step(h, "done", [kloc[h] EXCEPT !.verdict = "parse",
                                               !.payload = <<>>])
          ELSE IF r.name = <<>>
          THEN Step(h, "done", [kloc[h] EXCEPT !.verdict = "empty",
                                               !.payload = <<>>])
          ELSE Step(h, "reg",
                    [kloc[h] EXCEPT !.verdict = "accepted", !.name = r.name,
                                    !.payload = <<>>])
    /\ UNCHANGED <<kpub, kops>>
    /\ UNCHANGED <<canvasState, registryState, registryRest, wvars, mvars>>

\* msg_handler: deviceName := string(payload) and the test of it
OfflineCheck(h) ==
    /\ kpc[h] = "off_check"
    /\ IF kloc[h].payload = <<>>
       THEN Step(h, "done", [kloc[h] EXCEPT !.verdict = "empty"])
       ELSE Step(h, "reg",
                 [kloc[h] EXCEPT !.verdict = "accepted",
                                 !.name = kloc[h].payload, !.payload = <<>>])
    /\ UNCHANGED <<kpub, kops>>
    /\ UNCHANGED <<canvasState, registryState, registryRest, wvars, mvars>>

\* RegisterDevice, Heartbeat, SetInactive: manager.mu.Lock() and the change
\* of the registry
RegistryCall(h) ==
    /\ kpc[h] = "reg"
    /\ mu = NoHolder
    /\ mu' = h
    /\ LET id == kloc[h].name
           known == id \in DOMAIN devices
       IN  /\ devices' =
                 IF kloc[h].op = "bootup"
                 THEN RegisterDevice(devices, id, id, kloc[h].zip, now)
                 ELSE IF kloc[h].op = "heartbeat"
                 THEN Heartbeat(devices, id, now)
                 ELSE SetInactive(devices, id)
           /\ Step(h, IF kloc[h].op = "bootup" \/ known
                      THEN "reg_save" ELSE "reg_unlock",
                   [kloc[h] EXCEPT !.known = known])
    /\ UNCHANGED <<kpub, kops, data, file, tmp, lastSaveOk>>
    /\ UNCHANGED <<canvasState, registryRest, wvars, mvars>>

\* saveDeviceToStorage under manager.mu: store.Set changes the map and
\* replaces the data file, or fails to and leaves it
RegistrySave(h) ==
    /\ kpc[h] = "reg_save"
    /\ data' = StoreSet(data, kloc[h].name,
                        ToDeviceData(devices[kloc[h].name]))
    /\ \E ok \in BOOLEAN :
          /\ file' = IF ok THEN Complete(data') ELSE file
    /\ Goto(h, "reg_unlock")
    /\ UNCHANGED <<kloc, kpub, kops, devices, mu, tmp, lastSaveOk>>
    /\ UNCHANGED <<canvasState, registryRest, wvars, mvars>>

\* a bug: the heartbeat of an unknown device is not answered
AfterRegistry_knownOnly(op, known) ==
    IF op = "bootup" THEN "w_valid"
    ELSE IF op = "heartbeat" /\ known THEN "v_config"
    ELSE "done"

\* what follows the registry call in handle_device_bootup and msg_handler
AfterRegistry(op, known) ==
    IF op = "bootup" THEN "w_valid"
    ELSE IF op = "heartbeat" THEN "v_config"
    ELSE "done"

\* the deferred manager.mu.Unlock(); the registry call returns
RegistryReturn(h) ==
    /\ kpc[h] = "reg_unlock"
    /\ mu' = ReleaseRegistry(h)
    /\ Step(h, AfterRegistry(kloc[h].op, kloc[h].known),
            [kloc[h] EXCEPT
                !.stage = EventRank("registry", ""),
                !.known = FALSE,
                !.zip = IF kloc[h].op = "bootup"
                        THEN WeatherZip(kloc[h].name, @) ELSE @,
                !.phase = IF kloc[h].op = "bootup" THEN "refresh" ELSE @,
                !.kind = IF kloc[h].op = "bootup"
                         THEN "current_weather" ELSE @])
    /\ UNCHANGED <<kpub, kops, devices, data, file, tmp, lastSaveOk>>
    /\ UNCHANGED <<canvasState, registryRest, wvars, mvars>>

\* the step after the handling of one kind of weather in one phase
AfterKind(h, locals) ==
    IF locals.kind = "current_weather"
    THEN Step(h, "w_valid", [locals EXCEPT !.kind = "forecast_weather"])
    ELSE IF locals.phase = "refresh"
    THEN Step(h, "b_sleep", locals)
    ELSE Step(h, "v_config", locals)

\* is_weather_valid: GetStoredWeatherData under mu.RLock()
WeatherValidRead(h) ==
    /\ kpc[h] = "w_valid"
    /\ CanRLock(wmu)
    /\ wmu' = [wmu EXCEPT !.r = @ \union {h}]
    /\ \E r \in {GetStoredWeatherData(kloc[h].zip)} :
          Step(h, "w_valid_read",
               [kloc[h] EXCEPT !.exists = r.exists, !.val = r.val])
    /\ UNCHANGED <<kpub, kops, wstore, configMutex, minutes>>
    /\ UNCHANGED <<canvasState, registryState, registryRest, mvars>>

\* is_weather_valid: the deferred mu.RUnlock() and the verdict; the bootup
\* fetches what is not valid, publish_weather returns on what is not valid
WeatherValidReturn(h) ==
    /\ kpc[h] = "w_valid_read"
    /\ wmu' = RUnlockBy(wmu, h)
    /\ LET valid == IsWeatherValid(kloc[h].exists, kloc[h].val, kloc[h].kind,
                                   minutes)
           locals == [kloc[h] EXCEPT !.exists = FALSE, !.val = NoWeatherData]
       IN  IF kloc[h].phase = "refresh"
           THEN IF valid THEN AfterKind(h, locals)
                ELSE Step(h, "w_fetch", locals)
           ELSE IF valid THEN Step(h, "w_get", locals)
                ELSE AfterKind(h, locals)
    /\ UNCHANGED <<kpub, kops, wstore, configMutex, minutes>>
    /\ UNCHANGED <<canvasState, registryState, registryRest, mvars>>

\* fetch_weather: FetchWeatherFromAPI returns a body or nothing
WeatherFetch(h) ==
    /\ kpc[h] = "w_fetch"
    /\ \E body \in BOOLEAN :
          LET locals == [kloc[h] EXCEPT
                            !.stage = EventRank("fetch", kloc[h].kind)]
          IN  IF body THEN Step(h, "w_store", locals)
              ELSE AfterKind(h, locals)
    /\ UNCHANGED <<kpub, kops>>
    /\ UNCHANGED <<canvasState, registryState, registryRest, wvars, mvars>>

\* Store_weather: mu.Lock(), the record is read, changed and set
WeatherStore(h) ==
    /\ kpc[h] = "w_store"
    /\ CanLock(wmu)
    /\ wmu' = [wmu EXCEPT !.w = h]
    /\ wstore' = StoreWeather(kloc[h].zip, kloc[h].kind, minutes)
    /\ Goto(h, "w_stored")
    /\ UNCHANGED <<kloc, kpub, kops, configMutex, minutes>>
    /\ UNCHANGED <<canvasState, registryState, registryRest, mvars>>

\* Store_weather: the deferred mu.Unlock()
WeatherStoreReturn(h) ==
    /\ kpc[h] = "w_stored"
    /\ wmu' = [wmu EXCEPT !.w = NoHolder]
    /\ AfterKind(h, kloc[h])
    /\ UNCHANGED <<kpub, kops, wstore, configMutex, minutes>>
    /\ UNCHANGED <<canvasState, registryState, registryRest, mvars>>

\* handle_device_bootup: time.Sleep(1 * time.Second)
BootupSleep(h) ==
    /\ kpc[h] = "b_sleep"
    /\ Step(h, "w_valid",
            [kloc[h] EXCEPT !.phase = "publish", !.kind = "current_weather"])
    /\ UNCHANGED <<kpub, kops>>
    /\ UNCHANGED <<canvasState, registryState, registryRest, wvars, mvars>>

\* GetCurrentWeatherTemp, GetForecastDays: mu.RLock() and store.Get
WeatherGet(h) ==
    /\ kpc[h] = "w_get"
    /\ CanRLock(wmu)
    /\ wmu' = [wmu EXCEPT !.r = @ \union {h}]
    /\ \E r \in {GetStoredWeatherData(kloc[h].zip)} :
          Step(h, "w_got", [kloc[h] EXCEPT !.exists = r.exists, !.val = r.val])
    /\ UNCHANGED <<kpub, kops, wstore, configMutex, minutes>>
    /\ UNCHANGED <<canvasState, registryState, registryRest, mvars>>

\* GetCurrentWeatherTemp, GetForecastDays: the deferred mu.RUnlock(); an
\* error is returned when the record or its payload is missing
WeatherGetReturn(h) ==
    /\ kpc[h] = "w_got"
    /\ wmu' = RUnlockBy(wmu, h)
    /\ LET locals == [kloc[h] EXCEPT !.exists = FALSE, !.val = NoWeatherData]
       IN  IF kloc[h].exists /\ kloc[h].val[kloc[h].kind]
           THEN Step(h, "w_publish", locals)
           ELSE AfterKind(h, locals)
    /\ UNCHANGED <<kpub, kops, wstore, configMutex, minutes>>
    /\ UNCHANGED <<canvasState, registryState, registryRest, mvars>>

\* PublishQoS0 and PublishQoS1: the message is handed to the client, or
\* skipped when the client is not connected; a timeout and a token error
\* are only logged
MessagingOutcomes == {"sent", "not connected"}

\* publish_weather: messaging.PublishQoS0(msg_topic, ...)
WeatherPublish(h) ==
    /\ kpc[h] = "w_publish"
    /\ \E outcome \in MessagingOutcomes :
          /\ kpub' = IF outcome = "sent"
                     THEN [kpub EXCEPT ![h] =
                              [topic |-> WeatherTopic(kloc[h].zip), qos |-> 0,
                               retained |-> FALSE,
                               payload |-> WeatherMessage(kloc[h].kind)]]
                     ELSE kpub
          /\ AfterKind(h, [kloc[h] EXCEPT
                              !.stage = EventRank("publish", kloc[h].kind)])
    /\ UNCHANGED kops
    /\ UNCHANGED <<canvasState, registryState, registryRest, wvars, mvars>>

\* getDeviceVersion: configMutex.RLock() and the version read
VersionRead(h) ==
    /\ kpc[h] = "v_config"
    /\ CanRLock(configMutex)
    /\ configMutex' = [configMutex EXCEPT !.r = @ \union {h}]
    /\ Step(h, "v_config_read", [kloc[h] EXCEPT !.version = DeviceVersion])
    /\ UNCHANGED <<kpub, kops, wstore, wmu, minutes>>
    /\ UNCHANGED <<canvasState, registryState, registryRest, mvars>>

\* getDeviceVersion: the deferred configMutex.RUnlock()
VersionReturn(h) ==
    /\ kpc[h] = "v_config_read"
    /\ configMutex' = RUnlockBy(configMutex, h)
    /\ Goto(h, "v_publish")
    /\ UNCHANGED <<kloc, kpub, kops, wstore, wmu, minutes>>
    /\ UNCHANGED <<canvasState, registryState, registryRest, mvars>>

\* publish_version_notification: messaging.PublishQoS1(topicName, msg)
VersionPublish(h) ==
    /\ kpc[h] = "v_publish"
    /\ \E outcome \in MessagingOutcomes :
          /\ kpub' = IF outcome = "sent"
                     THEN [kpub EXCEPT ![h] =
                              [topic |-> CommandTopic(kloc[h].name),
                               qos |-> 1, retained |-> FALSE,
                               payload |-> EncodeVersion(kloc[h].version)]]
                     ELSE kpub
          /\ Step(h, "done",
                  [kloc[h] EXCEPT !.stage = EventRank("version", "")])
    /\ UNCHANGED kops
    /\ UNCHANGED <<canvasState, registryState, registryRest, wvars, mvars>>

\* time passes
MinutesPass ==
    /\ minutes + MinutesStep <= MaxMinutes
    /\ minutes' = minutes + MinutesStep
    /\ UNCHANGED <<wstore, wmu, configMutex>>
    /\ UNCHANGED <<rvars, cvars, kvars, mvars>>

NextCoordinator ==
    \/ \E h \in Handlers, payload \in GoodBootups \union BadBootups :
          BootupMessage(h, payload)
    \/ \E h \in Handlers, payload \in HeartbeatPayloads :
          HeartbeatMessage(h, payload)
    \/ \E h \in Handlers, payload \in OfflinePayloads :
          OfflineMessage(h, payload)
    \/ \E h \in Handlers : BootupDecode(h)
    \/ \E h \in Handlers : HeartbeatParse(h)
    \/ \E h \in Handlers : OfflineCheck(h)
    \/ \E h \in Handlers : RegistryCall(h)
    \/ \E h \in Handlers : RegistrySave(h)
    \/ \E h \in Handlers : RegistryReturn(h)
    \/ \E h \in Handlers : WeatherValidRead(h)
    \/ \E h \in Handlers : WeatherValidReturn(h)
    \/ \E h \in Handlers : WeatherFetch(h)
    \/ \E h \in Handlers : WeatherStore(h)
    \/ \E h \in Handlers : WeatherStoreReturn(h)
    \/ \E h \in Handlers : BootupSleep(h)
    \/ \E h \in Handlers : WeatherGet(h)
    \/ \E h \in Handlers : WeatherGetReturn(h)
    \/ \E h \in Handlers : WeatherPublish(h)
    \/ \E h \in Handlers : VersionRead(h)
    \/ \E h \in Handlers : VersionReturn(h)
    \/ \E h \in Handlers : VersionPublish(h)
    \/ \E h \in Handlers : SyncMessage(h)
    \/ \E h \in Handlers : RLock(h)
    \/ \E h \in Handlers : EncodeRead(h)
    \/ \E h \in Handlers : EncodeReturn(h)
    \/ \E h \in Handlers : SyncPublish(h)
    \/ \E h \in Handlers : SyncGetSequence(h)
    \/ \E h \in Handlers : HandlerReturns(h)
    \/ MinutesPass

SpecCoordinator == Init /\ [][NextCoordinator]_vars

(***************************************************************************)
(* Session coordinator: properties                                         *)
(***************************************************************************)
\* handler h is handling an accepted bootup message
InBootup(h) == kloc[h].op = "bootup" /\ kloc[h].verdict = "accepted"

\* the timestamp of one kind of weather in a stored record, and how long
\* that kind stays fresh
StampOf(val, kind) ==
    IF kind = "current_weather" THEN val.current_weather_updated
    ELSE val.forecast_weather_updated
PeriodOf(kind) ==
    IF kind = "current_weather" THEN WeatherValidityPeriod
    ELSE ForecastValidityPeriod

\* the record read has no data of the kind, or data older than its period
StaleRead(h) ==
    \/ ~kloc[h].exists
    \/ StampOf(kloc[h].val, kloc[h].kind) = <<>>
    \/ minutes - StampOf(kloc[h].val, kloc[h].kind)[1] > PeriodOf(kloc[h].kind)

\* the message that handler h hands to the broker in this step, if any
Publishes(h, topic, qos, payload) ==
    /\ kpub'[h] # kpub[h]
    /\ kpub'[h] = [topic |-> topic, qos |-> qos, retained |-> FALSE,
                   payload |-> payload]

\* C15: for every accepted bootup message the actions of the coordinator
\* occur in this order: the registry update (the device is registered active
\* and written to the store), then the fetch of current weather and of the
\* forecast of the zipcode, each only when the stored data read is stale,
\* then the publication of the weather on the topic of the zipcode, and last
\* the version notice on the command topic of the device.
C15_BootupOrder ==
    [][\A h \in Handlers :
          (InBootup(h) /\ kloc'[h].op = "bootup") =>
             /\ kloc'[h].stage # kloc[h].stage =>
                   /\ kloc'[h].stage > kloc[h].stage
                   /\ kloc[h].stage = 0 => kloc'[h].stage = 1
             /\ kloc'[h].stage = 1 /\ kloc[h].stage = 0 =>
                   /\ kloc[h].name \in DOMAIN devices'
                   /\ devices'[kloc[h].name].Active
                   /\ kloc[h].name \in DOMAIN data'
                   /\ data'[kloc[h].name] = ToDeviceData(devices'[kloc[h].name])
             /\ (kpc[h] = "w_valid_read" /\ kpc'[h] # kpc[h]
                    /\ kloc[h].phase = "refresh") =>
                   (kpc'[h] = "w_fetch" <=> StaleRead(h))
             /\ kloc'[h].stage \in {2, 3} /\ kloc[h].stage # kloc'[h].stage =>
                   /\ kpc[h] = "w_fetch"
                   /\ kloc'[h].stage = EventRank("fetch", kloc[h].kind)
             /\ kpub'[h] # kpub[h] =>
                   \/ /\ kloc'[h].stage = EventRank("publish", kloc[h].kind)
                      /\ kloc[h].stage < kloc'[h].stage
                      /\ Publishes(h, WeatherTopic(kloc[h].zip), 0,
                                   WeatherMessage(kloc[h].kind))
                   \/ /\ kloc'[h].stage = EventRank("version", "")
                      /\ kloc[h].stage < kloc'[h].stage
                      /\ Publishes(h, CommandTopic(kloc[h].name), 1,
                                   EncodeVersion(DeviceVersion))
             /\ kpc'[h] = "done" =>
                   kloc'[h].stage = EventRank("version", "")
    ]_vars

\* C15 witness: a second bootup has run to its end after the current weather
\* went stale and while the forecast was fresh: only the current weather was
\* fetched again
C15_Witness ==
    \E h \in Handlers :
       /\ InBootup(h)
       /\ kpc[h] = "done"
       /\ kloc[h].stage = EventRank("version", "")
       /\ kloc[h].zip \in DOMAIN wstore
       /\ wstore[kloc[h].zip].current_weather_updated = <<MinutesStep>>
       /\ wstore[kloc[h].zip].forecast_weather_updated = <<0>>

\* the positions of a bootup handler in steps 2 to 4: weather refresh,
\* weather publication, version notice
AfterRegistryPcs ==
    {"w_valid", "w_valid_read", "w_fetch", "w_store", "w_stored", "b_sleep",
     "w_get", "w_got", "w_publish", "v_config", "v_config_read", "v_publish"}

\* C16: the weather refresh, the weather publication and the version notice
\* of a bootup start only after RegisterDevice has returned and released
\* manager.mu, and no step of them, whatever its outcome (a fetch that
\* returns nothing, stale data, a publish that is skipped or fails), changes
\* the registry, the store map or the data file.
C16_LaterStepsLeaveRegistry ==
    [][\A h \in Handlers :
          (InBootup(h) /\ kpc[h] \in AfterRegistryPcs) =>
             /\ mu # h
             /\ kloc[h].stage >= EventRank("registry", "")
             /\ kloc[h].name \in DOMAIN devices
             /\ kloc[h].name \in DOMAIN data
             /\ (kpc'[h] # kpc[h] \/ kloc'[h] # kloc[h]) =>
                   /\ devices' = devices
                   /\ data' = data
                   /\ file' = file
                   /\ mu' = mu
    ]_vars

\* C16 witness: a bootup has run to its end with every later step failing:
\* both fetches returned nothing, so nothing was stored or published for the
\* zipcode, and the version notice was skipped; the device is registered and
\* the data file holds the store map
C16_Witness ==
    \E h \in Handlers :
       /\ InBootup(h)
       /\ kpc[h] = "done"
       /\ kloc[h].zip \notin DOMAIN wstore
       /\ kpub[h] = NoPublish
       /\ kloc[h].name \in DOMAIN devices
       /\ devices[kloc[h].name].Active
       /\ file = Complete(data)
       /\ data[kloc[h].name] = ToDeviceData(devices[kloc[h].name])

\* handler h is handling a heartbeat message that parsed to a device name
InHeartbeat(h) == kloc[h].op = "heartbeat" /\ kloc[h].verdict = "accepted"

\* C17: every heartbeat message that parses to a non-empty device name is
\* followed by the registry refresh (LastSeen and Active of a known device;
\* nothing for an unknown one) and then, known device or not, by the version
\* notice: PublishQoS1 of the version message on the command topic of the
\* device, which hands it to the client whenever the client is connected.
C17_HeartbeatThenVersion ==
    [][\A h \in Handlers :
          /\ (kpc[h] = "hb_parse" /\ kpc'[h] # kpc[h]) =>
                LET r == ParseHeartbeatMessage(kloc[h].payload)
                IN  IF r.err = NoError /\ r.name # <<>>
                    THEN kpc'[h] = "reg" /\ kloc'[h].name = r.name
                    ELSE kpc'[h] = "done" /\ kloc'[h].stage = 0
          /\ (InHeartbeat(h) /\ kloc'[h].op = "heartbeat") =>
                /\ kloc'[h].stage # kloc[h].stage =>
                      \/ /\ kloc[h].stage = 0
                         /\ kloc'[h].stage = EventRank("registry", "")
                      \/ /\ kloc[h].stage = EventRank("registry", "")
                         /\ kloc'[h].stage = EventRank("version", "")
                /\ (kpc[h] = "reg" /\ kpc'[h] # kpc[h]) =>
                      IF kloc[h].name \in DOMAIN devices
                      THEN /\ DOMAIN devices' = DOMAIN devices
                           /\ devices'[kloc[h].name].Active
                           /\ devices'[kloc[h].name].LastSeen = now
                      ELSE devices' = devices
                /\ kpub'[h] # kpub[h] =>
                      /\ kloc'[h].stage = EventRank("version", "")
                      /\ Publishes(h, CommandTopic(kloc[h].name), 1,
                                   <<MSG_VERSION, 1, DeviceVersion>>)
                /\ kpc'[h] = "done" =>
                      kloc'[h].stage = EventRank("version", "")
    ]_vars

\* C17 witness: the heartbeat of D2, which the registry does not know, has
\* been answered by the version notice on the topic D2
C17_Witness ==
    \E h \in Handlers :
       /\ InHeartbeat(h)
       /\ kpc[h] = "done"
       /\ kloc[h].name = NameD2
       /\ NameD2 \notin DOMAIN devices
       /\ kpub[h] = [topic |-> NameD2, qos |-> 1, retained |-> FALSE,
                     payload |-> <<MSG_VERSION, 1, DeviceVersion>>]

\* the zipcode that the registry holds for the device of handler h
StoredZipcode(h) == devices[kloc[h].name].Zipcode

\* C18: the weather fetched and published in response to a bootup is that of
\* the zipcode stored for the device: the fetch is made for the stored
\* zipcode, the data is stored under it and published on its topic, also
\* when the bootup message carries another zipcode.  The code does not do
\* this: it uses the zipcode of the message.
C18_WeatherOfStoredZipcode ==
    [][\A h \in Handlers :
          (InBootup(h) /\ kpc[h] \in AfterRegistryPcs) =>
             /\ (kpc[h] = "w_fetch" /\ kpc'[h] # kpc[h]) =>
                   kloc[h].zip = StoredZipcode(h)
             /\ (kpc[h] = "w_store" /\ wstore' # wstore) =>
                   StoredZipcode(h) \in DOMAIN wstore'
             /\ (kpc[h] = "w_publish" /\ kpub'[h] # kpub[h]) =>
                   kpub'[h].topic = WeatherTopic(StoredZipcode(h))
    ]_vars

\* C18 witness: D1 is registered with 78757 and has booted with 60601 in
\* the message; the weather has been published on weather/60601
C18_Witness ==
    \E h \in Handlers :
       /\ InBootup(h)
       /\ kloc[h].name = NameD1
       /\ NameD1 \in DOMAIN devices
       /\ devices[NameD1].Zipcode = Zip78757
       /\ kpub[h].topic = WeatherTopic(Zip60601)
       /\ Zip60601 \in DOMAIN wstore

\* handler h has rejected a bootup message
RejectedBootup(h) ==
    /\ kloc[h].op = "bootup"
    /\ kloc[h].verdict \notin {"", "accepted"}

\* C19: a bootup message that fails frame decoding, has a type other than
\* 0x03, fails device-config decoding, carries fewer than 2 strings, or has
\* an empty device name or zipcode after trimming is rejected alone: its
\* handler ends without a change of the registry, the store map, the data
\* file or the weather store, without a fetch or a publish and without a
\* lock held, so that each handler can take up the messages that follow; a
\* well-formed message goes on to the registry.
C19_MalformedBootupRejectedAlone ==
    [][\A h \in Handlers :
          /\ (kpc[h] = "b_decode" /\ kpc'[h] # kpc[h]) =>
                /\ kloc[h].payload \in BadBootups =>
                      /\ kpc'[h] = "done"
                      /\ RejectedBootup(h)'
                /\ kloc[h].payload \in GoodBootups =>
                      /\ kpc'[h] = "reg"
                      /\ InBootup(h)'
                /\ UNCHANGED <<devices, data, file, wstore, kpub, mu>>
          /\ RejectedBootup(h) =>
                /\ kpc[h] = "done"
                /\ kloc[h].stage = 0
                /\ kpub[h] = NoPublish
                /\ Held(h) = {}
                /\ kpc'[h] # kpc[h] =>
                      /\ kpc'[h] = "idle"
                      /\ UNCHANGED <<devices, data, file, wstore, mu>>
    ]_vars

\* C19 witness: a bootup message with a truncated device config has been
\* rejected, and a heartbeat that arrived after it has been handled to its
\* end, version notice included
C19_Witness ==
    \E g, h \in Handlers :
       /\ RejectedBootup(g)
       /\ kloc[g].verdict = "decode device config"
       /\ InHeartbeat(h)
       /\ kloc[h].afterReject
       /\ kpc[h] = "done"
       /\ kloc[h].stage = EventRank("version", "")

\* C20: at every outbound publish and every weather fetch the handler holds
\* none of manager.mu, Canvas.mu, the mutex of the weather store and
\* configMutex: each lock taken to read or change local state is released
\* before the network operation starts.
C20_NoLockOverNetwork ==
    \A h \in Handlers : kpc[h] \in NetworkPcs => Held(h) = {}

\* C20 witness: a bootup handler, which has been through manager.mu, the
\* weather mutex and configMutex, is about to publish the version notice
\* while another handler, which has been through Canvas.mu, is about to
\* publish the full frame
C20_Witness ==
    \E g, h \in Handlers :
       /\ InBootup(h)
       /\ kpc[h] = "v_publish"
       /\ kloc[h].stage = EventRank("publish", "forecast_weather")
       /\ kpc[g] = "sync_publish"
       /\ Held(g) = {} /\ Held(h) = {}

(***************************************************************************)
(* Wire codec: the functions called on sample arguments                    *)
(***************************************************************************)
\* longest buffer and longest list of strings that are enumerated in full
MaxBuf == 3
MaxStrings == 2

ByteSamples == {0, 1, 2, 3, 255}
Int8Values == -128 .. 127

\* n bytes b
Repeat(b, n) == [i \in 1 .. n |-> b]

\* every buffer of up to MaxBuf sample bytes
ShortBuffers == UNION {[1 .. n -> ByteSamples] : n \in 0 .. MaxBuf}

\* payloads of the smallest and the largest sizes
PayloadSamples ==
    ShortBuffers \union {Repeat(9, 254), Repeat(9, 255)}

\* the frame [type][len(payload)][payload]
MakeFrame(type, payload) == <<type, Len(payload)>> \o payload

\* the buffers handed to DecodeMessage: the short ones, the well-formed
\* frames, frames followed by more bytes, a frame one byte short of its
\* declared 255
BufferSamples ==
    ShortBuffers
    \union {MakeFrame(t, p) : t \in ByteSamples, p \in PayloadSamples}
    \union {MakeFrame(3, p) \o <<7, 8>> : p \in ShortBuffers}
    \union {<<3, 255>> \o Repeat(9, 254)}

\* "ESP32_Device", "12345", "living room", "60601", "WiFi"
StrESP32Device == <<69, 83, 80, 51, 50, 95, 68, 101, 118, 105, 99, 101>>
Str12345 == <<49, 50, 51, 52, 53>>
StrLivingRoom == <<108, 105, 118, 105, 110, 103, 32, 114, 111, 111, 109>>
StrWiFi == <<87, 105, 70, 105>>

\* the lists of strings handed to EncodeDeviceConfig: every list of up to
\* MaxStrings short strings, the examples of the protocol document, and the
\* lists at the limits of count, string length and payload size
StringSamples == {<<>>, <<65>>, <<65, 66>>}
StringLists ==
    UNION {[1 .. n -> StringSamples] : n \in 0 .. MaxStrings}
    \union { <<StrESP32Device, Str12345>>,
             <<StrLivingRoom, Zip60601, StrWiFi>>,
             Repeat(<<>>, 256),
             <<Repeat(65, 253)>>, <<Repeat(65, 254)>>, <<Repeat(65, 256)>>,
             <<Repeat(65, 126), Repeat(66, 126)>>,
             <<Repeat(65, 126), Repeat(66, 127)>> }

\* the payloads handed to DecodeDeviceConfig: the short buffers, and the
\* encoded lists with and without their last byte
ConfigPayloads ==
    ShortBuffers
    \union {SubSeq(EncodeDeviceConfig(l).msg, 3,
                   Len(EncodeDeviceConfig(l).msg) - cut) :
               l \in {<<StrESP32Device, Str12345>>,
                      <<StrLivingRoom, Zip60601, StrWiFi>>},
               cut \in {0, 1}}

\* the buffers handed to parseHeartbeatMessage: the short ones, and the short
\* ones after the type byte of a heartbeat
HeartbeatBuffers ==
    ShortBuffers \union {<<MSG_HEARTBEAT>> \o b : b \in ShortBuffers}
                 \union HeartbeatPayloads

\* the canvas states handed to EncodeFullFrame: blank, the pattern, every
\* bit set, and rows whose two bytes differ from row to row
FullFrameSamples ==
    {[seq |-> q, frame |-> f] :
        q \in {0, 1, 258, 65535},
        f \in Frames
              \union {[red |-> [i \in Rows |-> 65535],
                       green |-> [i \in Rows |-> 65535],
                       blue |-> [i \in Rows |-> 65535]],
                      [red |-> [i \in Rows |-> 256 * i + (255 - i)],
                       green |-> [i \in Rows |-> 256 * (16 + i) + 1],
                       blue |-> [i \in Rows |-> 4096 * i + 7]]}}

\* the payloads handed to DecodeFullFrame: short ones, one of 97 bytes, and
\* the payloads of encoded frames, alone and followed by one more byte
FullFramePayloads ==
    ShortBuffers \union {Repeat(1, 96), Repeat(1, 97)}
    \union {SubSeq(EncodeFrame(c.seq, c.frame.red, c.frame.green,
                               c.frame.blue), 3, 100) \o tail :
               c \in FullFrameSamples, tail \in {<<>>, <<9>>}}

\* the forecasts handed to EncodeForecast
DaySample == [HighTemp |-> 71, Precip |-> 40, Moon |-> 2]
ForecastSamples == {Repeat(DaySample, n) : n \in {0, 1, 3, 84, 85}}

\* the batches handed to EncodeUpdates
UpdateSamples ==
    {[seq |-> q, updates |-> u] :
        q \in SeqInputs,
        u \in CallBatches
              \union {Repeat([Row |-> 15, Col |-> 15, Color |-> 2], n) :
                         n \in {32, 33}}
              \union {[i \in 1 .. n |->
                          [Row |-> i % 16, Col |-> (3 * i + 1) % 16,
                           Color |-> IF i = 5 THEN 255 ELSE i % 3]] :
                         n \in {2, 31, 32, 33}}}

\* fn is about to be called with one of args
Calls(fn, args) ==
    wire \in {[fn |-> fn, arg |-> a, done |-> FALSE, res |-> <<>>] :
                 a \in args}

\* a function of the codec is about to be called
CodecInit ==
    /\ RInit /\ CInit /\ KInit /\ WInit
    /\ pub = NoPublishCall
    /\ net = NetInit
    /\ task = TaskInit
    /\ lk = LockInit
    /\ \/ Calls("DecodeMessage", BufferSamples)
       \/ Calls("EncodeGeneric", PayloadSamples \union {Repeat(9, 256)})
       \/ Calls("EncodeDeviceConfig", StringLists)
       \/ Calls("DecodeDeviceConfig", ConfigPayloads)
       \/ Calls("EncodeCurrentWeather", Int8Values)
       \/ Calls("EncodeForecast", ForecastSamples)
       \/ Calls("EncodeVersion", ByteSamples)
       \/ Calls("EncodeFullFrame", FullFrameSamples)
       \/ Calls("DecodeFullFrame", FullFramePayloads)
       \/ Calls("EncodeUpdates", UpdateSamples)
       \/ Calls("parseHeartbeatMessage", HeartbeatBuffers)

\* the function returns res; the argument is left as it is
Returns(fn, res) ==
    /\ wire.fn = fn
    /\ ~wire.done
    /\ wire' = [wire EXCEPT !.done = TRUE, !.res = res]
    /\ UNCHANGED <<rvars, cvars, kvars, wvars, pub, net, task, lk>>

DecodeMessageCall ==
    /\ wire.fn = "DecodeMessage"
    /\ Returns("DecodeMessage", DecodeMessage(wire.arg))

EncodeGenericCall ==
    /\ wire.fn = "EncodeGeneric"
    /\ Returns("EncodeGeneric", EncodeGeneric(wire.arg))

EncodeDeviceConfigCall ==
    /\ wire.fn = "EncodeDeviceConfig"
    /\ Returns("EncodeDeviceConfig", EncodeDeviceConfig(wire.arg))

DecodeDeviceConfigCall ==
    /\ wire.fn = "DecodeDeviceConfig"
    /\ Returns("DecodeDeviceConfig", DecodeDeviceConfig(wire.arg))

EncodeCurrentWeatherCall ==
    /\ wire.fn = "EncodeCurrentWeather"
    /\ Returns("EncodeCurrentWeather", EncodeCurrentWeather(wire.arg))

EncodeForecastCall ==
    /\ wire.fn = "EncodeForecast"
    /\ Returns("EncodeForecast", EncodeForecast(wire.arg))

EncodeVersionCall ==
    /\ wire.fn = "EncodeVersion"
    /\ Returns("EncodeVersion", EncodeVersion(wire.arg))

EncodeFullFrameCall ==
    /\ wire.fn = "EncodeFullFrame"
    /\ Returns("EncodeFullFrame",
               EncodeFrame(wire.arg.seq, wire.arg.frame.red,
                           wire.arg.frame.green, wire.arg.frame.blue))

EncodeUpdatesCall ==
    /\ wire.fn = "EncodeUpdates"
    /\ Returns("EncodeUpdates", EncodeUpdates(wire.arg.seq, wire.arg.updates))

DecodeFullFrameCall ==
    /\ wire.fn = "DecodeFullFrame"
    /\ Returns("DecodeFullFrame", DecodeFullFrame(wire.arg))

ParseHeartbeatCall ==
    /\ wire.fn = "parseHeartbeatMessage"
    /\ Returns("parseHeartbeatMessage", ParseHeartbeatMessage(wire.arg))

NextCodec ==
    \/ DecodeMessageCall
    \/ EncodeGenericCall
    \/ EncodeDeviceConfigCall
    \/ DecodeDeviceConfigCall
    \/ EncodeCurrentWeatherCall
    \/ EncodeForecastCall
    \/ EncodeVersionCall
    \/ EncodeFullFrameCall
    \/ EncodeUpdatesCall
    \/ ParseHeartbeatCall
    \/ DecodeFullFrameCall

SpecCodec == CodecInit /\ [][NextCodec]_vars

\* the call of fn has returned
Returned(fn) == wire.fn = fn /\ wire.done

\* C22: for every type byte and every payload of 0 to 255 bytes, decoding
\* the frame [type][len(payload)][payload] returns exactly (type, payload);
\* so does decoding what EncodeGeneric returns for such a payload.
C22_DecodeOfFrame ==
    /\ Returned("DecodeMessage") =>
          \A t \in ByteSamples, p \in PayloadSamples :
              wire.arg = MakeFrame(t, p) =>
                  /\ wire.res.err = NoError
                  /\ wire.res.msgType = t
                  /\ wire.res.payload = p
    /\ Returned("EncodeGeneric") /\ Len(wire.arg) <= 255 =>
          DecodeMessage(wire.res) =
              [err |-> NoError, msgType |-> MSG_GENERIC,
               payload |-> wire.arg]

C22_Witness ==
    /\ Returned("DecodeMessage")
    /\ wire.arg = MakeFrame(255, Repeat(9, 255))
    /\ wire.res.payload = Repeat(9, 255)

\* C23: DecodeMessage fails with the too-short error on a buffer of fewer
\* than 2 bytes, with the length-mismatch error when the length byte is
\* larger than the number of bytes after the header, and succeeds otherwise.
C23_DecodeMessageErrors ==
    Returned("DecodeMessage") =>
        IF Len(wire.arg) < 2
        THEN wire.res.err = "message too short"
        ELSE IF wire.arg[2] > Len(wire.arg) - 2
        THEN wire.res.err = "invalid length field"
        ELSE wire.res.err = NoError

C23_Witness ==
    /\ Returned("DecodeMessage")
    /\ wire.arg = <<3, 255>> \o Repeat(9, 254)
    /\ wire.res.err = "invalid length field"

\* C24: for a buffer that DecodeMessage accepts, the payload is the bytes
\* after the 2-byte header up to the declared length, its length is the
\* length byte and at most 255, bytes after it are not part of it, and the
\* buffer is as it was.
C24_PayloadIsDeclaredBytes ==
    [][DecodeMessageCall /\ wire'.res.err = NoError =>
          /\ wire'.arg = wire.arg
          /\ wire'.res.payload = SubSeq(wire.arg, 3, 2 + wire.arg[2])
          /\ Len(wire'.res.payload) = wire.arg[2]
          /\ wire.arg[2] <= 255]_vars

C24_Witness ==
    /\ Returned("DecodeMessage")
    /\ wire.arg = <<3, 2, 1, 2, 7, 8>>
    /\ wire.res.err = NoError
    /\ wire.res.payload = <<1, 2>>

\* the encoders that return a frame and nothing else
FrameEncoders ==
    {"EncodeGeneric", "EncodeCurrentWeather", "EncodeForecast",
     "EncodeVersion", "EncodeFullFrame", "EncodeUpdates"}

\* the frame invariant: the length byte is the number of payload bytes
FrameInvariant(msg) ==
    /\ Len(msg) >= 2
    /\ msg[2] = Len(msg) - 2
    /\ msg[2] <= MAX_PAYLOAD_SIZE

\* C25: every frame that an encoder of the server returns satisfies the
\* frame invariant, for every input: the length byte equals the number of
\* payload bytes that follow it and is at most 255.
C25_EncodersKeepFrameInvariant ==
    /\ wire.done /\ wire.fn \in FrameEncoders => FrameInvariant(wire.res)
    /\ Returned("EncodeDeviceConfig") /\ wire.res.err = NoError =>
          FrameInvariant(wire.res.msg)

C25_Witness ==
    /\ Returned("EncodeGeneric")
    /\ Len(wire.arg) = 256
    /\ wire.res[2] = 0
    /\ Len(wire.res) = 258

\* the place of the length byte of string i in a device config payload
LengthAt(strs, i) == 1 + i + SumLen(SubSeq(strs, 1, i - 1))

\* the payload is [count][len1][bytes1][len2][bytes2]... for strs, in order
ConfigLayout(strs, payload) ==
    /\ Len(payload) = 1 + Len(strs) + SumLen(strs)
    /\ payload[1] = Len(strs)
    /\ \A i \in 1 .. Len(strs) :
          /\ payload[LengthAt(strs, i)] = Len(strs[i])
          /\ SubSeq(payload, LengthAt(strs, i) + 1,
                    LengthAt(strs, i) + Len(strs[i])) = strs[i]

\* C26: the payload of the frame that EncodeDeviceConfig returns is
\* [count][len1][bytes1][len2][bytes2]... in the given order, and
\* DecodeDeviceConfig of that payload returns the same list of strings; for
\* "ESP32_Device", "12345" it is [0x02][0x0C]"ESP32_Device"[0x05]"12345".
C26_DeviceConfigRoundTrip ==
    Returned("EncodeDeviceConfig") /\ wire.res.err = NoError =>
        /\ ConfigLayout(wire.arg, FramePayload(wire.res.msg))
        /\ DecodeDeviceConfig(FramePayload(wire.res.msg)).err = NoError
        /\ DecodeDeviceConfig(FramePayload(wire.res.msg)).strs = wire.arg
        /\ wire.arg = <<StrESP32Device, Str12345>> =>
              FramePayload(wire.res.msg) =
                  <<2, 12>> \o StrESP32Device \o <<5>> \o Str12345

C26_Witness ==
    /\ Returned("EncodeDeviceConfig")
    /\ wire.arg = <<StrESP32Device, Str12345>>
    /\ wire.res.err = NoError
    /\ Len(wire.res.msg) = 22

\* the lists that the claim says EncodeDeviceConfig refuses
TooLarge(strs) ==
    \/ Len(strs) > 255
    \/ \E i \in 1 .. Len(strs) : Len(strs[i]) > 255
    \/ 1 + Len(strs) + SumLen(strs) > 255

\* C27: EncodeDeviceConfig returns an error and no frame when it is given
\* more than 255 strings, a string longer than 255 bytes, or strings whose
\* payload exceeds 255 bytes; otherwise it returns a frame and no error.
C27_DeviceConfigLimits ==
    Returned("EncodeDeviceConfig") =>
        IF TooLarge(wire.arg)
        THEN wire.res.err # NoError /\ wire.res.msg = <<>>
        ELSE wire.res.err = NoError /\ Len(wire.res.msg) >= 3

C27_Witness ==
    /\ Returned("EncodeDeviceConfig")
    /\ wire.arg = <<Repeat(65, 126), Repeat(66, 127)>>
    /\ wire.res.err = "payload too large"
    /\ wire.res.msg = <<>>

\* C28: DecodeDeviceConfig fails on an empty payload; for a payload that
\* declares N strings it fails with an error that names the index of the
\* string, from 1 to N, at which the payload ends before a length byte or
\* before all the declared bytes of the string; it succeeds only with N
\* strings laid out in the payload, and it never reads past the end.
C28_DeviceConfigTruncation ==
    Returned("DecodeDeviceConfig") =>
        /\ wire.res.read <= Len(wire.arg)
        /\ IF wire.arg = <<>>
           THEN wire.res.err = "payload too short"
           ELSE IF wire.res.err = NoError
           THEN /\ Len(wire.res.strs) = wire.arg[1]
                /\ ConfigLayout(wire.res.strs,
                                SubSeq(wire.arg, 1, wire.res.read))
           ELSE /\ wire.res.strs = <<>>
                /\ wire.res.index \in 1 .. wire.arg[1]
                /\ wire.res.read >= wire.res.index
                /\ \/ /\ wire.res.err = "payload truncated: length field"
                      /\ wire.res.read = Len(wire.arg)
                   \/ /\ wire.res.err = "payload truncated: string"
                      /\ wire.res.read + wire.arg[wire.res.read]
                            > Len(wire.arg)

C28_Witness ==
    /\ Returned("DecodeDeviceConfig")
    /\ wire.arg = <<2, 12>> \o StrESP32Device \o <<5, 49, 50, 51, 52>>
    /\ wire.res.err = "payload truncated: string"
    /\ wire.res.index = 2

\* the two examples of the protocol document
IsExample1 ==
    Returned("EncodeDeviceConfig") /\ wire.arg = <<StrESP32Device, Str12345>>
IsExample2 ==
    /\ Returned("EncodeDeviceConfig")
    /\ wire.arg = <<StrLivingRoom, Zip60601, StrWiFi>>

C30_TemperatureRoundTrip ==
    Returned("EncodeCurrentWeather") =>
        /\ wire.res = <<1, 1, (wire.arg + 50) % 256>>
        /\ wire.res[3] - 50 = wire.arg
        /\ wire.arg = 20 => wire.res[3] = 70

C30_Witness ==
    /\ Returned("EncodeCurrentWeather")
    /\ wire.arg = -51
    /\ wire.res = <<1, 1, 255>>

(***************************************************************************)
(* Outbound publishes: the token of client.Publish and the wait for it     *)
(***************************************************************************)
\* WaitTimeout(5 * time.Second), WaitTimeout(15 * time.Second), and
\* WaitTimeout(5000), which is 5000 nanoseconds, in whole seconds
QoS0Timeout == 5
QoS1Timeout == 15
SyncTimeout == 0

PublishFunctions ==
    {"PublishQoS0", "PublishQoS1", "PublishRetained", "HandleSyncRequest"}

\* token.Wait() has no timeout
HasTimeout(fn) == fn # "PublishRetained"

Timeout(fn) ==
    CASE fn = "PublishQoS0" -> QoS0Timeout
      [] fn = "PublishQoS1" -> QoS1Timeout
      [] fn = "HandleSyncRequest" -> SyncTimeout

\* PublishQoS0, PublishQoS1, PublishRetained: without a connected client
\* the publish is skipped; otherwise client.Publish returns a token
PublishCall ==
    /\ pub.pc = "idle"
    /\ \E fn \in PublishFunctions \ {"HandleSyncRequest"},
          connected \in BOOLEAN :
          pub' = IF connected
                 THEN [pc |-> "waiting", fn |-> fn, token |-> "pending",
                       sent |-> 1, waited |-> 0, outcome |-> "none"]
                 ELSE [pc |-> "returned", fn |-> fn, token |-> "none",
                       sent |-> 0, waited |-> 0, outcome |-> "skipped"]
    /\ UNCHANGED <<rvars, cvars, kvars, wvars, wire, net, task, lk>>

\* HandleSyncRequest: client.Publish without a test of the connection; the
\* token of a client that is not connected is complete with an error
SyncCall ==
    /\ pub.pc = "idle"
    /\ \E connected \in BOOLEAN :
          pub' = [pc |-> "waiting", fn |-> "HandleSyncRequest",
                  token |-> IF connected THEN "pending" ELSE "error",
                  sent |-> 1, waited |-> 0, outcome |-> "none"]
    /\ UNCHANGED <<rvars, cvars, kvars, wvars, wire, net, task, lk>>

\* the client completes the token: the message was written (QoS 0) or the
\* broker acknowledged it (QoS 1)
TokenDone ==
    /\ pub.token = "pending"
    /\ pub' = [pub EXCEPT !.token = "done"]
    /\ UNCHANGED <<rvars, cvars, kvars, wvars, wire, net, task, lk>>

\* the client completes the token with an error
TokenError ==
    /\ pub.token = "pending"
    /\ pub' = [pub EXCEPT !.token = "error"]
    /\ UNCHANGED <<rvars, cvars, kvars, wvars, wire, net, task, lk>>

\* a second of the timer of WaitTimeout passes while the function waits for
\* the token; token.Wait() has no timer and blocks on the token alone
WaitTick ==
    /\ pub.pc = "waiting"
    /\ pub.token = "pending"
    /\ HasTimeout(pub.fn)
    /\ pub.waited < Timeout(pub.fn)
    /\ pub' = [pub EXCEPT !.waited = @ + 1]
    /\ UNCHANGED <<rvars, cvars, kvars, wvars, wire, net, task, lk>>

\* Wait / WaitTimeout returns because the token is complete
ReturnComplete ==
    /\ pub.pc = "waiting"
    /\ pub.token # "pending"
    /\ pub' = [pub EXCEPT !.pc = "returned",
                          !.outcome = IF pub.token = "done"
                                      THEN "published" ELSE "error"]
    /\ UNCHANGED <<rvars, cvars, kvars, wvars, wire, net, task, lk>>

\* WaitTimeout returns false: the timeout is logged (or returned as an
\* error by HandleSyncRequest) and the function returns
ReturnTimeout ==
    /\ pub.pc = "waiting"
    /\ pub.token = "pending"
    /\ HasTimeout(pub.fn)
    /\ pub.waited >= Timeout(pub.fn)
    /\ pub' = [pub EXCEPT !.pc = "returned", !.outcome = "timeout"]
    /\ UNCHANGED <<rvars, cvars, kvars, wvars, wire, net, task, lk>>

\* the caller goes on
PublishReturned ==
    /\ pub.pc = "returned"
    /\ pub' = NoPublishCall
    /\ UNCHANGED <<rvars, cvars, kvars, wvars, wire, net, task, lk>>

NextPublish ==
    \/ PublishCall
    \/ SyncCall
    \/ TokenDone
    \/ TokenError
    \/ WaitTick
    \/ ReturnComplete
    \/ ReturnTimeout
    \/ PublishReturned

SpecPublish == Init /\ [][NextPublish]_vars

\* time passes and a function that can return does; nothing makes the
\* client complete a token
FairPublish ==
    /\ SpecPublish
    /\ WF_vars(WaitTick)
    /\ WF_vars(ReturnComplete)
    /\ WF_vars(ReturnTimeout)

\* C21: every outbound publish (QoS 0, QoS 1, retained, the canvas sync
\* frame) returns after a bounded wait for the acknowledgement of the
\* broker: also when the acknowledgement never arrives the function
\* returns, having called client.Publish once.
C21_PublishReturns ==
    /\ (pub.pc = "waiting") ~> (pub.pc = "returned")
    /\ [](pub.sent <= 1)

C21_Witness ==
    /\ pub.fn = "PublishRetained"
    /\ pub.pc = "waiting"
    /\ pub.token = "pending"
    /\ pub.sent = 1
    /\ ~ENABLED ReturnTimeout

\* the buffers that the claim says parseHeartbeatMessage refuses
BadHeartbeat(bytes) ==
    \/ Len(bytes) < 3
    \/ bytes[1] # 17
    \/ bytes[2] > Len(bytes) - 2
    \/ bytes[3] > bytes[2] - 1

\* C31: parseHeartbeatMessage returns an error when the buffer has fewer
\* than 3 bytes, when the type byte is not 0x11, when the length byte
\* exceeds the bytes after the header, or when the name-length byte exceeds
\* the remaining payload bytes; otherwise it returns exactly the nameLen
\* bytes that follow the name-length byte.
C31_HeartbeatParse ==
    Returned("parseHeartbeatMessage") =>
        IF BadHeartbeat(wire.arg)
        THEN wire.res.err # NoError /\ wire.res.name = <<>>
        ELSE /\ wire.res.err = NoError
             /\ Len(wire.res.name) = wire.arg[3]
             /\ wire.res.name = SubSeq(wire.arg, 4, 3 + wire.arg[3])

C31_Witness ==
    /\ Returned("parseHeartbeatMessage")
    /\ wire.arg = <<17, 2, 1, 255>>
    /\ wire.res.name = <<255>>

\* bytes at and at + 1 of msg are x, low byte first
LittleEndianAt(msg, at, x) ==
    msg[at] = x % 256 /\ msg[at + 1] = x \div 256

\* C32: EncodeFullFrame returns a 100-byte frame [0x21][98][sequence as 2
\* bytes big-endian][16 red rows][16 green rows][16 blue rows] with every
\* row as 2 bytes little-endian, and DecodeFullFrame of its 98-byte payload
\* returns exactly the sequence and the channels of the canvas;
\* DecodeFullFrame fails on a payload shorter than 98 bytes.
C32_FullFrameRoundTrip ==
    /\ Returned("EncodeFullFrame") =>
          /\ Len(wire.res) = 100
          /\ wire.res[1] = 33 /\ wire.res[2] = 98
          /\ wire.res[3] = wire.arg.seq \div 256
          /\ wire.res[4] = wire.arg.seq % 256
          /\ \A i \in Rows :
                /\ LittleEndianAt(wire.res, 5 + 2 * i, wire.arg.frame.red[i])
                /\ LittleEndianAt(wire.res, 37 + 2 * i,
                                  wire.arg.frame.green[i])
                /\ LittleEndianAt(wire.res, 69 + 2 * i,
                                  wire.arg.frame.blue[i])
          /\ DecodeFullFrame(FramePayload(wire.res)) =
                [err |-> NoError, sequence |-> wire.arg.seq,
                 red |-> wire.arg.frame.red, green |-> wire.arg.frame.green,
                 blue |-> wire.arg.frame.blue]
    /\ Returned("DecodeFullFrame") =>
          (wire.res.err # NoError <=> Len(wire.arg) < 98)

C32_Witness ==
    /\ Returned("EncodeFullFrame")
    /\ wire.arg.seq = 258
    /\ wire.arg.frame = PatternFrame
    /\ SubSeq(wire.res, 1, 4) = <<33, 98, 1, 2>>
    /\ DecodeFullFrame(FramePayload(wire.res)).red[7] = 65535

\* the updates that EncodeUpdates keeps
Kept(updates) ==
    IF Len(updates) > 32 THEN SubSeq(updates, 1, 32) ELSE updates

\* row and col of every update are in 0..15
InRange(updates) ==
    \A i \in 1 .. Len(updates) :
        updates[i].Row \in 0 .. 15 /\ updates[i].Col \in 0 .. 15

\* C33: EncodeUpdates keeps only the first 32 updates of a batch (the count
\* byte is at most 32) and encodes each as [row<<4 | col][channel]; for
\* every sequence number and every batch of at most 32 updates with row and
\* col in 0..15, DecodeUpdates of the encoded payload returns the same
\* sequence number and the same updates in the same order.
C33_UpdatesRoundTrip ==
    Returned("EncodeUpdates") =>
        /\ wire.res[5] = Len(Kept(wire.arg.updates))
        /\ wire.res[5] <= 32
        /\ Len(wire.res) = 5 + 2 * wire.res[5]
        /\ InRange(wire.arg.updates) =>
              /\ \A i \in 1 .. wire.res[5] :
                    /\ wire.res[4 + 2 * i] =
                          wire.arg.updates[i].Row * 16
                              + wire.arg.updates[i].Col
                    /\ wire.res[5 + 2 * i] = wire.arg.updates[i].Color
              /\ DecodeUpdates(FramePayload(wire.res)) =
                    [err |-> NoError, seq |-> wire.arg.seq,
                     updates |-> Kept(wire.arg.updates)]

C33_Witness ==
    /\ Returned("EncodeUpdates")
    /\ Len(wire.arg.updates) = 33
    /\ InRange(wire.arg.updates)
    /\ wire.arg.updates[1] # wire.arg.updates[2]
    /\ wire.res[5] = 32
    /\ Len(DecodeUpdates(FramePayload(wire.res)).updates) = 32

(***************************************************************************)
(* The canvas topic: devices and the server publish on it, and the server  *)
(* is subscribed to it                                                     *)
(***************************************************************************)
\* number of messages that the devices publish on the canvas topic
MaxTopicMessages == 3

MSG_TYPE_ETCH_GET_FRAME == 32
MSG_TYPE_ETCH_UPDATE_FRAME == 33

\* the full frames that devices publish, and their request for the canvas
DeviceFrames ==
    {EncodeFrame(c.seq, c.frame.red, c.frame.green, c.frame.blue) :
        c \in CallFrames}
GetFrameMessage == <<MSG_TYPE_ETCH_GET_FRAME, 0>>

\* messages that are too short, shorter than their length byte says, of
\* another type, or full frames whose payload is not 98 bytes long
BadTopicMessages ==
    { <<>>, <<33>>, <<32, 1>>, <<33, 98>> \o Repeat(1, 97), <<34, 0>>,
      <<0, 98>> \o Repeat(1, 98), <<33, 0>>, <<33, 97>> \o Repeat(1, 97),
      <<33, 99>> \o Repeat(1, 99) }

\* a bug: a message of an unknown type is answered like a request
EtchKind_answerAll(payload) ==
    IF Len(payload) < 2 THEN "too short"
    ELSE IF Len(payload) < 2 + payload[2] THEN "length mismatch"
    ELSE IF payload[1] = MSG_TYPE_ETCH_UPDATE_FRAME
    THEN IF payload[2] # 98 THEN "invalid length" ELSE "update"
    ELSE "request"

\* handle_etchsketch_message: the branch that a message takes
EtchKind(payload) ==
    IF Len(payload) < 2 THEN "too short"
    ELSE IF Len(payload) < 2 + payload[2] THEN "length mismatch"
    ELSE IF payload[1] = MSG_TYPE_ETCH_GET_FRAME THEN "request"
    ELSE IF payload[1] = MSG_TYPE_ETCH_UPDATE_FRAME
    THEN IF payload[2] # 98
         THEN "invalid length"
         ELSE IF DecodeFullFrame(SubSeq(payload, 3, 2 + payload[2])).err
                    # NoError
         THEN "decode error" ELSE "update"
    ELSE "unknown"

\* a device publishes a message; the broker holds it for the server
DeviceSends ==
    /\ net.sent < MaxTopicMessages
    /\ \E bytes \in DeviceFrames \union {GetFrameMessage}
                       \union BadTopicMessages :
          net' = [net EXCEPT !.sent = @ + 1,
                             !.inbox = Append(@, [from |-> "device",
                                                  bytes |-> bytes])]
    /\ UNCHANGED <<rvars, cvars, kvars, wvars, wire, pub, task, lk>>

\* msg_handler and handle_etchsketch_message for the next message of the
\* subscription. A request is answered with the frame of the canvas, which
\* the broker, if the publish reaches it, also holds for the subscription of
\* the server; a full frame is decoded and becomes the canvas.
HandleEtchsketchMessage ==
    /\ net.inbox # <<>>
    /\ LET msg == Head(net.inbox)
           kind == EtchKind(msg.bytes)
           frame == DecodeFullFrame(FramePayload(msg.bytes))
       IN  CASE kind = "request" ->
                  /\ UNCHANGED <<red, green, blue, sequence>>
                  /\ \E reaches \in BOOLEAN :
                        net' = [net EXCEPT
                                  !.inbox =
                                      IF reaches
                                      THEN Append(Tail(@),
                                             [from |-> "server",
                                              bytes |-> EncodeFrame(sequence,
                                                           red, green, blue)])
                                      ELSE Tail(@),
                                  !.pubs = @ + 1,
                                  !.last = "request"]
             [] kind = "update" ->
                  /\ sequence' = frame.sequence
                  /\ red' = frame.red
                  /\ green' = frame.green
                  /\ blue' = frame.blue
                  /\ net' = [net EXCEPT
                               !.inbox = Tail(@),
                               !.latest =
                                   IF msg.from = "device"
                                   THEN [sequence |-> frame.sequence,
                                         red |-> frame.red,
                                         green |-> frame.green,
                                         blue |-> frame.blue]
                                   ELSE @,
                               !.frames = IF msg.from = "device"
                                          THEN @ + 1 ELSE @,
                               !.last = msg.from]
             [] OTHER ->
                  /\ UNCHANGED <<red, green, blue, sequence>>
                  /\ net' = [net EXCEPT !.inbox = Tail(@), !.last = kind]
    /\ UNCHANGED <<rvars, ccalls, clast, kvars, wvars, wire, pub, task, lk>>

NextTopic ==
    \/ DeviceSends
    \/ HandleEtchsketchMessage

SpecTopic == Init /\ [][NextTopic]_vars

\* C34: the canvas of the server is changed only by the full frames that
\* devices submit: after any interleaving of full frames and requests of
\* devices on the canvas topic the canvas is the full frame of a device that
\* was delivered last (the blank canvas before the first), and a frame that
\* the server published in answer to a request does not overwrite it when
\* it comes back on the server's own subscription.
C34_CanvasIsLatestDeviceFrame ==
    CanvasNow = net.latest

C34_Witness ==
    /\ net.last = "server"
    /\ net.frames = 1
    /\ net.latest.sequence = 65535
    /\ sequence = 0
    /\ red = BlankRows

\* the messages that the claim calls malformed
Malformed(bytes) ==
    \/ Len(bytes) < 2
    \/ bytes[2] > Len(bytes) - 2
    \/ bytes[1] \notin {32, 33}
    \/ bytes[1] = 33 /\ bytes[2] # 98

\* C35: a message on the canvas topic that is shorter than 2 bytes, whose
\* length byte exceeds the bytes available, whose type is neither request
\* nor full frame, or that is a full frame whose payload is not exactly 98
\* bytes leaves the channels and the sequence of the canvas unchanged and
\* causes no publish.
C35_MalformedTopicMessageIgnored ==
    [][HandleEtchsketchMessage /\ Malformed(Head(net.inbox).bytes) =>
          /\ UNCHANGED <<red, green, blue, sequence>>
          /\ net'.pubs = net.pubs
          /\ net'.inbox = Tail(net.inbox)]_vars

C35_Witness ==
    /\ net.last = "invalid length"
    /\ net.frames = 1
    /\ net.pubs = 0
    /\ sequence = 65535
    /\ net.inbox = <<>>


(***************************************************************************)
(* The pixel-update handler of the canvas manager (Manager.                *)
(* HandleDeviceUpdates), called by concurrent handlers.  ApplyUpdates runs *)
(* under c.mu.Lock() and EncodeFullFrame under c.mu.RLock(), so each is    *)
(* one step; the lock is free between the two calls.                       *)
(***************************************************************************)
\* the payloads of the update batches that devices send, and one payload
\* that is too short for DecodeUpdates
UpdatePayloads ==
    {FramePayload(EncodeUpdates(7, updates)) : updates \in CallBatches}
        \union {<<0, 7>>}

\* HandleDeviceUpdates: DecodeUpdates(payload); its error is returned
HandleDeviceUpdatesCall(h, payload) ==
    LET decoded == DecodeUpdates(payload)
    IN  IF decoded.err # NoError
        THEN TakeUp(h, "done",
                 [op |-> "updates", updates |-> <<>>, newSeq |-> 0,
                  frame |-> <<>>, err |-> "decode"])
        ELSE TakeUp(h, "upd_apply",
                 [op |-> "updates", updates |-> decoded.updates, newSeq |-> 0,
                  frame |-> <<>>, err |-> ""])

\* EncodeFullFrame: the sequence number that the frame carries is c.sequence
\* at the time of the call
SequenceOfFrame(h) == sequence

\* HandleDeviceUpdates: newSeq := m.canvas.ApplyUpdates(updates)
UpdatesApply(h) ==
    /\ kpc[h] = "upd_apply"
    /\ CanLock(cmu)
    /\ \E c \in {ApplyLoop([red |-> red, green |-> green, blue |-> blue],
                          kloc[h].updates)} :
          /\ red' = c.red
          /\ green' = c.green
          /\ blue' = c.blue
          /\ committed' = [red |-> c.red, green |-> c.green, blue |-> c.blue,
                           sequence |-> Inc16(sequence)]
    /\ sequence' = Inc16(sequence)
    /\ lastMut' = [op |-> "ApplyUpdates", updates |-> kloc[h].updates]
    /\ applied' =
          [applied EXCEPT
              !.n = @ + 1,
              !.rets = @ \union {Inc16(sequence)},
              !.bits = @ \union
                  {kloc[h].updates[i] : i \in
                      {j \in 1 .. Len(kloc[h].updates) :
                          LET update == kloc[h].updates[j]
                          IN  update.Row <= 15 /\ update.Col <= 15
                              /\ update.Color <= 2}}]
    /\ kloc' = [kloc EXCEPT ![h].newSeq = Inc16(sequence)]
    /\ Goto(h, "upd_encode")
    /\ UNCHANGED <<kpub, kops, cmu>>
    /\ UNCHANGED nonLocked

\* HandleDeviceUpdates: frame := m.canvas.EncodeFullFrame()
UpdatesEncode(h) ==
    /\ kpc[h] = "upd_encode"
    /\ CanRLock(cmu)
    /\ kloc' = [kloc EXCEPT ![h].frame =
                   EncodeFrame(SequenceOfFrame(h), red, green, blue)]
    /\ Goto(h, "upd_publish")
    /\ UNCHANGED <<kpub, kops, cmu, committed, lastMut, applied>>
    /\ UNCHANGED <<red, green, blue, sequence>>
    /\ UNCHANGED nonLocked

\* HandleDeviceUpdates: m.client.Publish(m.topic, 0, true, frame) and the
\* wait for its token; a timeout or an error is returned with newSeq
UpdatesPublish(h) ==
    /\ kpc[h] = "upd_publish"
    /\ kpub' = [kpub EXCEPT ![h] =
                   [topic |-> TopicEtchSketch, qos |-> 0, retained |-> TRUE,
                    payload |-> kloc[h].frame]]
    /\ \E outcome \in PublishOutcomes :
          /\ kloc' = [kloc EXCEPT ![h].err = outcome]
          /\ Goto(h, IF outcome = "ok" THEN "upd_broadcast" ELSE "done")
    /\ UNCHANGED <<kops, cmu, committed, lastMut, applied>>
    /\ UNCHANGED <<red, green, blue, sequence>>
    /\ UNCHANGED nonLocked

\* HandleDeviceUpdates: EncodeUpdates(newSeq, updates) is published, not
\* retained, and the handler returns newSeq with the outcome
UpdatesBroadcast(h) ==
    /\ kpc[h] = "upd_broadcast"
    /\ kpub' = [kpub EXCEPT ![h] =
                   [topic |-> TopicEtchSketch, qos |-> 0, retained |-> FALSE,
                    payload |-> EncodeUpdates(kloc[h].newSeq,
                                              kloc[h].updates)]]
    /\ \E outcome \in PublishOutcomes :
          kloc' = [kloc EXCEPT ![h].err = outcome]
    /\ Goto(h, "done")
    /\ UNCHANGED <<kops, cmu, committed, lastMut, applied>>
    /\ UNCHANGED <<red, green, blue, sequence>>
    /\ UNCHANGED nonLocked

NextUpdates ==
    \/ \E h \in Handlers, payload \in UpdatePayloads :
          HandleDeviceUpdatesCall(h, payload)
    \/ \E h \in Handlers : UpdatesApply(h)
    \/ \E h \in Handlers : UpdatesEncode(h)
    \/ \E h \in Handlers : UpdatesPublish(h)
    \/ \E h \in Handlers : UpdatesBroadcast(h)
    \/ \E h \in Handlers : HandlerReturns(h)

SpecUpdates == Init /\ [][NextUpdates]_vars

\* the handlers that have encoded the full frame after their batch
EncodedFrame ==
    {h \in Handlers :
        /\ kloc[h].op = "updates"
        /\ kloc[h].frame # <<>>}

\* the handlers that have published the update broadcast
Broadcast ==
    {h \in Handlers :
        /\ kloc[h].op = "updates"
        /\ kpub[h].retained = FALSE
        /\ kpub[h].payload # <<>>}

\* C36: in HandleDeviceUpdates the retained full frame published after a
\* device's update batch carries exactly the sequence number that applying
\* the batch returned, also when batches of other devices are applied
\* concurrently, and the update broadcast that follows carries the same
\* sequence number.
C36_FrameCarriesReturnedSequence ==
    /\ \A h \in EncodedFrame :
          Uint16BE(kloc[h].frame, 3) = kloc[h].newSeq
    /\ \A h \in Broadcast :
          Uint16BE(kpub[h].payload, 3) = kloc[h].newSeq

\* two batches were applied before the first handler encoded its frame: the
\* frame it has published carries the sequence number of the second batch,
\* its broadcast the sequence number of the first
C36_Witness ==
    \E h \in Broadcast :
        /\ kloc[h].newSeq = 1
        /\ Uint16BE(kloc[h].frame, 3) = 2
        /\ Uint16BE(kpub[h].payload, 3) = 1
        /\ sequence = 2


(***************************************************************************)
(* Device registry: what the lifecycle events leave alone                  *)
(***************************************************************************)
\* a new process has replaced the registry by the content of the data file
Restarted == boots' # boots

\* C37: no lifecycle event (bootup, heartbeat, offline notification) ever
\* removes a device from the registry; an event for one id never changes the
\* record of a different id; and the passage of time alone never changes a
\* record, so it never makes a device Inactive.
C37_EventsTouchOwnRecordOnly ==
    [][ /\ ~Restarted => Known \subseteq DOMAIN devices'
        /\ \A h \in Handlers :
              Starts(h) =>
                  \A id \in Known \ {hargs'[h].id} :
                      devices'[id] = devices[id]
        /\ (~Restarted /\ \A h \in Handlers : ~Starts(h)) =>
              devices' = devices ]_vars

\* time has passed since the bootup of D1 and D1 is still Active; D2 has gone
\* offline since and a handler is about to store its record
C37_Witness ==
    /\ Known = {"D1", "D2"}
    /\ devices["D1"].Active
    /\ devices["D1"].LastSeen < now
    /\ ~devices["D2"].Active
    /\ \E h \in Handlers : hargs[h].op = "offline" /\ hargs[h].id = "D2"
    /\ boots = 0


(***************************************************************************)
(* publish_weather: what is published and what is skipped                  *)
(***************************************************************************)
\* the weather store holds data of the kind for the zipcode, with a
\* timestamp that is not older than the validity period of the kind
FreshInStore(zip, kind) ==
    /\ zip \in DOMAIN wstore
    /\ wstore[zip][kind]
    /\ StampOf(wstore[zip], kind) # <<>>
    /\ minutes - StampOf(wstore[zip], kind)[1] <= PeriodOf(kind)

\* handler h is in publish_weather, at the return of is_weather_valid
AtPublishVerdict(h) ==
    /\ kpc[h] = "w_valid_read"
    /\ kloc[h].phase = "publish"

\* handler h is in publish_weather, past the test of is_weather_valid
PastPublishVerdict(h) ==
    /\ kpc[h] \in {"w_get", "w_got", "w_publish"}
    /\ kloc[h].phase = "publish"

\* C38: weather of a kind is published for a routing key only if the store
\* holds data of that kind for the key with a last-updated timestamp that is
\* no older than the validity period of the kind when is_weather_valid
\* looks at it; otherwise publish_weather skips the publish: nothing is sent
\* and the handler goes on with what follows.
C38_PublishOnlyValidWeather ==
    /\ [][\A h \in Handlers :
             /\ (AtPublishVerdict(h) /\ kpc'[h] # kpc[h]) =>
                   /\ (kpc'[h] = "w_get") <=>
                         FreshInStore(kloc[h].zip, kloc[h].kind)
                   /\ kpub'[h] = kpub[h]
             /\ (kpub'[h] # kpub[h] /\ kpub'[h].payload # <<>>
                 /\ kpub'[h].payload[1] \in
                        {MSG_CURRENT_WEATHER, MSG_FORECAST_WEATHER}) =>
                   /\ kpc[h] = "w_publish"
                   /\ PastPublishVerdict(h)
          ]_vars
    /\ [](\A h \in Handlers :
             PastPublishVerdict(h) =>
                 /\ kloc[h].zip \in DOMAIN wstore
                 /\ wstore[kloc[h].zip][kloc[h].kind]
                 /\ StampOf(wstore[kloc[h].zip], kloc[h].kind) # <<>>)

\* the current weather stored for the zipcode of the bootup is older than 35
\* minutes and has not been published; the forecast, stored at the same
\* time, is about to be published
C38_Witness ==
    \E h \in Handlers :
       /\ PastPublishVerdict(h)
       /\ kpc[h] = "w_publish"
       /\ kloc[h].kind = "forecast_weather"
       /\ kloc[h].stage < EventRank("publish", "current_weather")
       /\ wstore[kloc[h].zip].current_weather
       /\ ~FreshInStore(kloc[h].zip, "current_weather")
       /\ FreshInStore(kloc[h].zip, "forecast_weather")


(***************************************************************************)
(* task_weather: the periodic refresh of the weather, next to the          *)
(* lifecycle events of the devices.  Each registry function runs under     *)
(* manager.mu and is one step here, with its write-through to the store.   *)
(***************************************************************************)
\* number of ticks of the two tickers that a behaviour may contain
MaxTicks == 1

WeatherKinds == {"current_weather", "forecast_weather"}

\* a bug: a zipcode counts as active as soon as a device is associated with it
IsZipcodeActive_anyDevice(devs, zipcode) ==
    \E id \in DOMAIN devs : devs[id].Zipcode = zipcode

\* IsZipcodeActive: an active device is associated with the zipcode
IsZipcodeActive(devs, zipcode) ==
    \E id \in DOMAIN devs : devs[id].Active /\ devs[id].Zipcode = zipcode

\* GetActiveZipcodes: the zipcodes of the active devices, each one once
GetActiveZipcodes(devs) ==
    {zipcode \in {devs[id].Zipcode : id \in DOMAIN devs} :
        IsZipcodeActive(devs, zipcode)}

\* what the lifecycle events and the task leave alone
taskRest == <<cvars, kvars, wire, pub, net, lk>>

\* RegisterDevice, Heartbeat or SetInactive for a device, with
\* saveDeviceToStorage when the function calls it
LifecycleEvent(op, id, zip) ==
    /\ mu = NoHolder
    /\ devices' = IF op = "bootup"
                  THEN RegisterDevice(devices, id, id, zip, now)
                  ELSE IF op = "heartbeat" THEN Heartbeat(devices, id, now)
                  ELSE SetInactive(devices, id)
    /\ IF op = "bootup" \/ id \in Known
       THEN /\ data' = StoreSet(data, id, ToDeviceData(devices'[id]))
            /\ \E ok \in BOOLEAN :
                  file' = IF ok THEN Complete(data') ELSE file
       ELSE UNCHANGED <<data, file>>
    /\ UNCHANGED <<mu, smu, tmp, now, hpc, hargs, herr, boots, lastSaveOk>>
    /\ UNCHANGED <<wvars, task, taskRest>>

\* task_weather: a ticker fires; the active zipcodes are read, and with none
\* of them the tick ends with a log line
TickerFires(kind) ==
    /\ task.pc = "wait"
    /\ task.ticks < MaxTicks
    /\ LET activeZipcodes == GetActiveZipcodes(devices)
       IN  task' = [pc |-> IF activeZipcodes = {} THEN "wait" ELSE "fetch",
                    kind |-> kind, todo |-> activeZipcodes, zip |-> <<>>,
                    active |-> activeZipcodes, fetched |-> <<>>,
                    published |-> <<>>, ticks |-> task.ticks + 1]
    /\ UNCHANGED <<rvars, wvars, taskRest>>

\* task_weather: fetch_weather for the next zipcode of the loop; what
\* FetchWeatherFromAPI returns is stored unless it is empty
TaskFetch ==
    /\ task.pc = "fetch"
    /\ CanLock(wmu)
    /\ \E zip \in task.todo, body \in BOOLEAN :
          /\ task' = [task EXCEPT !.pc = "publish", !.zip = zip,
                                  !.fetched = Append(@, zip)]
          /\ wstore' = IF body THEN StoreWeather(zip, task.kind, minutes)
                       ELSE wstore
    /\ UNCHANGED <<wmu, configMutex, minutes>>
    /\ UNCHANGED <<rvars, taskRest>>

\* task_weather: publish_weather for the zipcode
TaskPublish ==
    /\ task.pc = "publish"
    /\ CanRLock(wmu)
    /\ LET r == GetStoredWeatherData(task.zip)
           valid == IsWeatherValid(r.exists, r.val, task.kind, minutes)
       IN  \E outcome \in MessagingOutcomes :
              task' = [task EXCEPT
                          !.pc = "sleep",
                          !.published =
                              IF valid /\ r.val[task.kind] /\ outcome = "sent"
                              THEN Append(@, task.zip) ELSE @]
    /\ UNCHANGED <<rvars, wvars, taskRest>>

\* task_weather: time.Sleep(1 * time.Second) and the next round of the loop
TaskSleep ==
    /\ task.pc = "sleep"
    /\ task' = [task EXCEPT
                   !.pc = IF task.todo = {task.zip} THEN "wait" ELSE "fetch",
                   !.todo = @ \ {task.zip}]
    /\ UNCHANGED <<rvars, wvars, taskRest>>

NextTask ==
    \/ \E id \in {NameD1, NameD2}, zip \in {Zip78757, Zip60601} :
          LifecycleEvent("bootup", id, zip)
    \/ \E id \in {NameD1, NameD2}, op \in {"heartbeat", "offline"} :
          LifecycleEvent(op, id, <<>>)
    \/ \E kind \in WeatherKinds : TickerFires(kind)
    \/ TaskFetch
    \/ TaskPublish
    \/ TaskSleep
    \/ MinutesPass

SpecTask == Init /\ [][NextTask]_vars

\* the zipcodes of the devices that are active
ZipcodesOfActive ==
    {devices[id].Zipcode : id \in {i \in Known : devices[i].Active}}

\* the elements of a sequence
Range(s) == {s[i] : i \in DOMAIN s}

RegistryWriteSaved ==
    << <<"Lock", "manager.mu">>, <<"Lock", "manager.store.mu">>,
       <<"Unlock", "manager.store.mu">>, <<"Unlock", "manager.mu">> >>

\* SetInactive and Heartbeat of an unknown device
RegistryWriteUnknown ==
    << <<"Lock", "manager.mu">>, <<"Unlock", "manager.mu">> >>

\* GetActiveDevices, IsZipcodeActive, GetDevice
RegistryRead ==
    << <<"RLock", "manager.mu">>, <<"RUnlock", "manager.mu">> >>

\* a bug: Store_weather reads the record before it takes mu
StoreWeatherLocks_storeFirst ==
    << <<"RLock", "weather.store.mu">>, <<"Lock", "weather.mu">>,
       <<"RUnlock", "weather.store.mu">>, <<"Lock", "weather.store.mu">>,
       <<"Unlock", "weather.store.mu">>, <<"Unlock", "weather.mu">> >>

\* Store_weather: mu.Lock(), store.Get, store.Set, the deferred mu.Unlock()
StoreWeatherLocks ==
    << <<"Lock", "weather.mu">>, <<"RLock", "weather.store.mu">>,
       <<"RUnlock", "weather.store.mu">>, <<"Lock", "weather.store.mu">>,
       <<"Unlock", "weather.store.mu">>, <<"Unlock", "weather.mu">> >>

\* GetStoredWeatherData, GetCurrentWeatherTemp, GetForecastDays:
\* mu.RLock(), store.Get, the deferred mu.RUnlock()
WeatherReadLocks ==
    << <<"RLock", "weather.mu">>, <<"RLock", "weather.store.mu">>,
       <<"RUnlock", "weather.store.mu">>, <<"RUnlock", "weather.mu">> >>

\* the functions that a thread calls: the handlers change the registry,
\* task_weather reads it; both use the weather package
FunctionsOf(t) ==
    (IF t \in Handlers
     THEN {"RegisterDevice", "SetInactive", "Heartbeat", "unknown device"}
     ELSE {"GetActiveDevices"})
    \union {"Store_weather", "GetStoredWeatherData"}

LockFunctions == UNION {FunctionsOf(t) : t \in Threads}

\* the lock calls of a function, in the order of its code
LockCalls(fn) ==
    CASE fn \in {"RegisterDevice", "SetInactive", "Heartbeat"} ->
             RegistryWriteSaved
      [] fn = "unknown device" -> RegistryWriteUnknown
      [] fn = "GetActiveDevices" -> RegistryRead
      [] fn = "Store_weather" -> StoreWeatherLocks
      [] fn = "GetStoredWeatherData" -> WeatherReadLocks

\* thread t is inside a function; its next lock call
Running(t) == lk.fn[t] # "none"
NextCall(t) == LockCalls(lk.fn[t])[lk.pc[t]]

\* the thread has made its call: it goes on, or returns after the last one
Proceeds(t, m2) ==
    lk' = IF lk.pc[t] = Len(LockCalls(lk.fn[t]))
          THEN [fn |-> [lk.fn EXCEPT ![t] = "none"],
                pc |-> [lk.pc EXCEPT ![t] = 1], m |-> m2]
          ELSE [fn |-> lk.fn, pc |-> [lk.pc EXCEPT ![t] = @ + 1], m |-> m2]

lockRest == <<rvars, cvars, kvars, wvars, wire, pub, net, task>>

\* a handler or the task calls a function of the registry or of the weather
\* package
CallFunction(t, fn) ==
    /\ ~Running(t)
    /\ fn \in FunctionsOf(t)
    /\ lk' = [lk EXCEPT !.fn[t] = fn, !.pc[t] = 1]
    /\ UNCHANGED lockRest

\* Lock: the thread announces itself, which keeps new readers out
MutexLockWait(t) ==
    /\ Running(t)
    /\ NextCall(t)[1] = "Lock"
    /\ t \notin lk.m[NextCall(t)[2]].pending
    /\ lk' = [lk EXCEPT !.m[NextCall(t)[2]].pending = @ \union {t}]
    /\ UNCHANGED lockRest

\* Lock returns when no writer and no reader holds the mutex
MutexLock(t) ==
    /\ Running(t)
    /\ NextCall(t)[1] = "Lock"
    /\ LET x == NextCall(t)[2]
       IN  /\ t \in lk.m[x].pending
           /\ lk.m[x].w = NoHolder
           /\ lk.m[x].r = {}
           /\ Proceeds(t, [lk.m EXCEPT ![x].w = t, ![x].pending = @ \ {t}])
    /\ UNCHANGED lockRest

\* RLock returns when no writer holds the mutex or waits for it
MutexRLock(t) ==
    /\ Running(t)
    /\ NextCall(t)[1] = "RLock"
    /\ LET x == NextCall(t)[2]
       IN  /\ lk.m[x].w = NoHolder
           /\ lk.m[x].pending = {}
           /\ Proceeds(t, [lk.m EXCEPT ![x].r = @ \union {t}])
    /\ UNCHANGED lockRest

\* Unlock
MutexUnlock(t) ==
    /\ Running(t)
    /\ NextCall(t)[1] = "Unlock"
    /\ Proceeds(t, [lk.m EXCEPT ![NextCall(t)[2]].w = NoHolder])
    /\ UNCHANGED lockRest

\* RUnlock
MutexRUnlock(t) ==
    /\ Running(t)
    /\ NextCall(t)[1] = "RUnlock"
    /\ Proceeds(t, [lk.m EXCEPT ![NextCall(t)[2]].r = @ \ {t}])
    /\ UNCHANGED lockRest

\* the next lock call of thread t
LockStep(t) ==
    \/ MutexLockWait(t)
    \/ MutexLock(t)
    \/ MutexRLock(t)
    \/ MutexUnlock(t)
    \/ MutexRUnlock(t)

NextLocks ==
    \/ \E t \in Threads, fn \in LockFunctions : CallFunction(t, fn)
    \/ \E t \in Threads : MutexLockWait(t)
    \/ \E t \in Threads : MutexLock(t)
    \/ \E t \in Threads : MutexRLock(t)
    \/ \E t \in Threads : MutexUnlock(t)
    \/ \E t \in Threads : MutexRUnlock(t)

SpecLocks == Init /\ [][NextLocks]_vars

\* the scheduler runs every goroutine that can run
FairLocks == SpecLocks /\ \A t \in Threads : WF_vars(LockStep(t))

\* the mutexes that thread t holds, for writing or for reading
HeldMutexes(t) == {x \in Mutexes : lk.m[x].w = t \/ t \in lk.m[x].r}

\* the mutexes that a thread may hold when it acquires x: the lock of a
\* store comes after the lock of its package, and nothing else is nested
MayHoldAt(x) ==
    CASE x = "manager.store.mu" -> {"manager.mu"}
      [] x = "weather.store.mu" -> {"weather.mu"}
      [] OTHER -> {}

\* thread t acquires mutex x in this step
Acquires(t, x) ==
    /\ x \notin HeldMutexes(t)
    /\ lk'.m[x].w = t \/ t \in lk'.m[x].r

\* C40: no interleaving of the handlers and the periodic task deadlocks: a
\* thread that holds the registry lock or the weather lock acquires only the
\* lock of its own store after it, no lock is acquired in the opposite
\* order, and every thread that acquires a lock eventually releases it.
C40_NoDeadlock ==
    /\ [](\A t \in Threads :
             /\ Running(t) => \E u \in Threads : ENABLED LockStep(u)
             /\ HeldMutexes(t) # {} => ENABLED LockStep(t))
    /\ [][\A t \in Threads, x \in Mutexes :
             Acquires(t, x) => HeldMutexes(t) \subseteq MayHoldAt(x)]_vars
    /\ \A t \in Threads : (HeldMutexes(t) # {}) ~> (HeldMutexes(t) = {})

\* a handler holds manager.mu and manager.store.mu, the task holds weather.mu
\* for reading, and the other handler waits in Store_weather for weather.mu
C40_Witness ==
    /\ HeldMutexes("h1") = {"manager.mu", "manager.store.mu"}
    /\ HeldMutexes("task_weather") = {"weather.mu"}
    /\ lk.fn["h2"] = "Store_weather"
    /\ "h2" \in lk.m["weather.mu"].pending

====
